---- MODULE Spec2Model ----
(***************************************************************************)
(* Stock ledger of the retail chain inventory tracker:                     *)
(* InventoryService.update_stock and InventoryService.transfer_stock over  *)
(* the inventory_items and transactions tables (SQLAlchemy on SQLite), the *)
(* product catalog, the low-stock report, the polling route and the        *)
(* SocketIO change feed.                                                   *)
(*                                                                         *)
(* Spec      : the calls run one at a time, each as one step.              *)
(* ApiSpec   : the requests of the REST blueprint run one at a time: the   *)
(*             ledger calls, the product routes, the low-stock report and  *)
(*             the polling route.                                          *)
(* FeedSpec  : the requests to the two ledger routes run one at a time,    *)
(*             served by the blueprint's handler or by the application's   *)
(*             broadcasting handler (two steps: service call, emit), next  *)
(*             to a client that polls for changes.                         *)
(* OppositeSpec : two request workers transfer in opposite directions     *)
(*             between the two stocked stores, statement by statement,     *)
(*             each thread scheduled fairly.                               *)
(* ReportSpec : the ledger calls and the reporting routes (low stock,     *)
(*             dashboard, stock report, recent transactions, changes) run  *)
(*             one at a time.                                              *)
(* DashboardSpec : the ledger calls, changes of the catalog, the low-stock *)
(*             report and the dashboard run one at a time.                 *)
(* SkuSpec   : request workers add products, check and commit as separate *)
(*             steps, next to update_product requests.                     *)
(* SeededSpec : the ledger calls and the product routes run one at a     *)
(*             time on the database init_db.py seeds.                      *)
(* AuthSpec  : a client logs in and out as users of the three roles and   *)
(*             sends the writing requests and the request for the users.   *)
(* UowSpec   : two request workers run the ledger calls statement by      *)
(*             statement, the objects pending in each session kept until   *)
(*             its commit or rollback.                                     *)
(* JsonSpec  : clients of every role post adjustments and transfers whose  *)
(*             amounts are JSON numbers, counted in halves.                *)
(* RoomSpec  : the broadcasting handlers next to a connected client that   *)
(*             joins and leaves the rooms of the stores.                   *)
(* RaceSpec  : ConcSpec with the workers' arguments narrowed to the calls  *)
(*             that create the row of a pair.                              *)
(* ConcSpec  : request workers, each with its own session, interleave at   *)
(*             the granularity of the SQL statements the service issues:   *)
(*             every SELECT is a step, and flush + COMMIT is one step      *)
(*             (SQLite serialises writers, a transaction is seen whole).   *)
(***************************************************************************)
EXTENDS Integers, Sequences, FiniteSets, TLC

(* ------------------------------ bounds -------------------------------- *)
\* largest increase of one update_stock call; a decrease or a transfer may ask
\* for one more, so that a request can exceed what one call stocked
MaxDelta == 1
\* rows of the Transaction log after which no further call succeeds
MaxTx == 2
\* last reading of the clock
MaxClock == 1
\* concurrent request workers
NumWorkers == 2
\* largest amount a concurrent call passes
ConcMaxDelta == 1
\* rows of the Transaction log after which no concurrent call begins
ConcMaxTx == 2

(* ---------------------------- catalog --------------------------------- *)
\* Store and Product rows are reference data for the ledger operations.
stores == {1, 2}
products == {1}
\* Product.sku of the seeded product and one more a request may name
skus == {"A", "B"}
\* ids a caller may pass; the last one of each names no row
StoreIds == stores \cup {3}
ProductIds == products \cup {2}
Deltas == (0 - MaxDelta - 1)..MaxDelta
Quantities == 0..(MaxDelta + 1)
Workers == 1..NumWorkers
\* what the concurrent workers pass, for stores and products that exist (the
\* lookups of missing ones fail before any row of the ledger is read)
ConcDeltas == (0 - ConcMaxDelta)..ConcMaxDelta
ConcQuantities == 0..ConcMaxDelta

VARIABLES
  inventory_items,  \* committed rows of table inventory_items
  transactions,     \* committed rows of table transactions
  now,              \* the wall clock read by datetime.now
  last,             \* Spec: what the last call returned or raised
  session,          \* ConcSpec, per worker: position in its call, arguments,
                    \* the rows its session loaded, what its last call returned
  product_rows,     \* committed rows of table products
  handler,          \* FeedSpec: the broadcasting request handler, where it is
                    \* between the service call and the emit
  feed,             \* the notifications emitted to all connected clients
  poll,             \* the polling client: its next `since`, the ids it was sent
  user,             \* the client's Flask session: the user logged in, if any
  rooms,            \* the store rooms the SocketIO client has joined
  inbox             \* the store-scoped events the SocketIO client received

\* what the ledger calls and the blueprint's requests leave alone
api_vars == <<product_rows, handler, feed, poll, user, rooms, inbox>>
feed_vars == <<handler, feed, poll, user, rooms, inbox>>
vars == <<inventory_items, transactions, now, last, session, product_rows,
          handler, feed, poll, user, rooms, inbox>>

None == 0
NoRow == [id |-> None, store_id |-> None, product_id |-> None, quantity |-> 0]

abs(n) == IF n < 0 THEN 0 - n ELSE n

SetMax(S) == IF S = {} THEN 0 ELSE CHOOSE x \in S : \A y \in S : y <= x

\* SQLite rowid of the next INSERT
NextId(rows) == SetMax({r.id : r \in rows}) + 1

(* ----------------------------- queries -------------------------------- *)
get_store_by_id(store_id) == IF store_id \in stores THEN store_id ELSE None

\* Product.query.get(product_id): the id of the row, None without one
get_product_by_id(product_id) ==
  IF \E r \in product_rows : r.id = product_id THEN product_id ELSE None

\* filter_by(store_id, product_id).first()
get_inventory_item(items, store_id, product_id) ==
  LET m == {r \in items : r.store_id = store_id /\ r.product_id = product_id}
  IN IF m = {} THEN NoRow
     ELSE CHOOSE r \in m : \A o \in m : r.id <= o.id

\* the quantity a refresh of a loaded InventoryItem reads back
refresh_quantity(items, store_id, product_id) ==
  get_inventory_item(items, store_id, product_id).quantity

(* ----------------------------- the users ------------------------------ *)
\* the roles of the users
Roles == {"admin", "manager", "staff"}

\* the rows of table users: one user of every role
users ==
  {[id |-> 1, username |-> "admin", role |-> "admin"],
   [id |-> 2, username |-> "manager", role |-> "manager"],
   [id |-> 3, username |-> "staff", role |-> "staff"]}

\* the Flask session of a client that has not logged in
NoUser == [user_id |-> None, username |-> "", role |-> ""]

\* session['user_id'], session['username'], session['role'] after a login
LoggedIn(u) == [user_id |-> u.id, username |-> u.username, role |-> u.role]

\* the client has logged in as the administrator
Admin == LoggedIn(CHOOSE u \in users : u.role = "admin")

(* ---------------------------- the clock ------------------------------- *)
\* datetime.now(timezone.utc): not before the previous reading
Clock(t) == {u \in t..(t + 1) : u <= MaxClock}

(* ------------------------------ results ------------------------------- *)
\* what a call hands back: the returned dict, or the ValueError it raised
\* (the message without its numbers, and the numbers)
\* the 'totals', 'transactions' and 'inventory_summary' of a stock report
NoReport ==
  [total_in |-> 0, total_out |-> 0, total_transfers_in |-> 0,
   total_transfers_out |-> 0, net_change |-> 0, transactions |-> {},
   inventory_summary |-> {}]

\* the counters of the dashboard
NoKpis ==
  [total_products |-> 0, total_units |-> 0, low_stock_count |-> 0, total_stores |-> 0]

NoResult ==
  [op |-> "none", ok |-> FALSE, error |-> "", current |-> 0, requested |-> 0,
   new_quantity |-> 0, to_new_quantity |-> 0,
   transaction_id |-> None, to_transaction_id |-> None, timestamp |-> 0,
   rows |-> <<>>, report |-> NoReport, kpis |-> NoKpis]

Raise(op, error, current, requested) ==
  [NoResult EXCEPT !.op = op, !.error = error, !.current = current,
                   !.requested = requested]

(* ---------------------------- update_stock ---------------------------- *)
\* variant: the product lookup is missing
update_stock_validate_no_product(store_id, product_id, delta) ==
  IF delta = 0 THEN "Delta must be a non-zero integer"
  ELSE IF get_store_by_id(store_id) = None THEN "Store not found"
  ELSE "ok"

\* the checks before the inventory item is read: "ok" or the message raised
update_stock_validate(store_id, product_id, delta) ==
  IF delta = 0 THEN "Delta must be a non-zero integer"
  ELSE IF get_store_by_id(store_id) = None THEN "Store not found"
  ELSE IF get_product_by_id(product_id) = None THEN "Product not found"
  ELSE "ok"

\* quantity of the loaded item, or of the InventoryItem(quantity=0) just added
loaded_quantity(item) == IF item = NoRow THEN 0 ELSE item.quantity

\* variant: the stock check lets the quantity fall one below zero
insufficient_stock_off_by_one(new_quantity) == new_quantity < 0 - 1

insufficient_stock(new_quantity) == new_quantity < 0

\* variant: every adjustment is logged as IN
transaction_type_always_in(delta) == "IN"

transaction_type(delta) == IF delta > 0 THEN "IN" ELSE "OUT"

\* self.user_id: the id of the session's user, with which every route
\* constructs the service
actor == user.user_id

Transaction(id, product_id, store_id, type, quantity, timestamp, note, related_store_id, user_id) ==
  [id |-> id, product_id |-> product_id, store_id |-> store_id, type |-> type,
   quantity |-> quantity, timestamp |-> timestamp, note |-> note,
   related_store_id |-> related_store_id, user_id |-> user_id]

\* UNIQUE(store_id, product_id) on inventory_items
unique_store_product_unconstrained(items, store_id, product_id) == TRUE

unique_store_product(items, store_id, product_id) ==
  ~ \E r \in items : r.store_id = store_id /\ r.product_id = product_id

\* flush of one InventoryItem of the session: INSERT of a pending row, or
\* UPDATE ... SET quantity = :quantity WHERE id = :id of a loaded one
flush_item(items, item, store_id, product_id, quantity) ==
  IF item = NoRow
  THEN items \cup {[id |-> NextId(items), store_id |-> store_id,
                    product_id |-> product_id, quantity |-> quantity]}
  ELSE {IF r.id = item.id THEN [r EXCEPT !.quantity = quantity] ELSE r : r \in items}

\* the flush cannot be committed: the pending row breaks the unique constraint
flush_conflict(items, item, store_id, product_id) ==
  item = NoRow /\ ~ unique_store_product(items, store_id, product_id)

\* flush + COMMIT of update_stock: the item row and one Transaction row
update_stock_flush(items, txs, item, store_id, product_id, delta, ts) ==
  [items |-> flush_item(items, item, store_id, product_id, loaded_quantity(item) + delta),
   txs |-> txs \cup {Transaction(NextId(txs), product_id, store_id,
                                 transaction_type(delta), abs(delta), ts, "reason", None,
                                 actor)}]

\* variant: the returned quantity is the one read before the change
update_stock_result_stale(item, delta, txs, ts) ==
  [NoResult EXCEPT !.op = "update_stock", !.ok = TRUE,
                   !.new_quantity = loaded_quantity(item),
                   !.transaction_id = NextId(txs), !.timestamp = ts]

\* the dict update_stock returns after the commit
update_stock_result(item, delta, txs, ts) ==
  [NoResult EXCEPT !.op = "update_stock", !.ok = TRUE,
                   !.new_quantity = loaded_quantity(item) + delta,
                   !.transaction_id = NextId(txs), !.timestamp = ts]

\* except Exception: db.session.rollback(); raise
\* nothing of the session was flushed, so the tables keep their committed rows
rollback == UNCHANGED <<inventory_items, transactions, now>>

\* one call of update_stock on the committed tables, the timestamp default
\* reading ts: the tables it leaves and what it returns or raises
update_stock_call(items, txs, store_id, product_id, delta, ts) ==
  LET v == update_stock_validate(store_id, product_id, delta)
      inventory_item == get_inventory_item(items, store_id, product_id)
      new_quantity == loaded_quantity(inventory_item) + delta
  IN IF v # "ok"
     THEN [items |-> items, txs |-> txs, result |-> Raise("update_stock", v, 0, 0)]
     ELSE IF insufficient_stock(new_quantity)
     THEN [items |-> items, txs |-> txs,
           result |-> Raise("update_stock", "Insufficient stock",
                            loaded_quantity(inventory_item), abs(delta))]
     ELSE LET db == update_stock_flush(items, txs, inventory_item,
                                       store_id, product_id, delta, ts)
          IN [items |-> db.items, txs |-> db.txs,
              result |-> update_stock_result(inventory_item, delta, txs, ts)]

\* the tables and the result of a call become the committed tables and what
\* the caller sees
Commit(call) ==
  /\ inventory_items' = call.items
  /\ transactions' = call.txs
  /\ last' = call.result
  /\ UNCHANGED session

\* the step of one call; a call that raises inserted no row, so that no
\* timestamp default was evaluated
update_stock(store_id, product_id, delta) ==
  LET raised == update_stock_call(inventory_items, transactions,
                                  store_id, product_id, delta, now)
  IN IF ~ raised.result.ok
     THEN Commit(raised) /\ now' = now
     ELSE /\ Cardinality(transactions) < MaxTx
          /\ \E ts \in Clock(now) :
               /\ Commit(update_stock_call(inventory_items, transactions,
                                            store_id, product_id, delta, ts))
               /\ now' = ts

(* --------------------------- transfer_stock --------------------------- *)
\* variant: the same-store check is missing
same_store_unchecked(from_store_id, to_store_id) == FALSE

same_store(from_store_id, to_store_id) == from_store_id = to_store_id

\* variant: the lookup of the destination store is missing
transfer_stock_validate_no_destination(from_store_id, to_store_id, product_id, quantity) ==
  IF quantity <= 0 THEN "Transfer quantity must be positive"
  ELSE IF same_store(from_store_id, to_store_id) THEN "Cannot transfer to the same store"
  ELSE IF get_store_by_id(from_store_id) = None THEN "Source store not found"
  ELSE IF get_product_by_id(product_id) = None THEN "Product not found"
  ELSE "ok"

\* the checks before the source inventory item is read: "ok" or the message
transfer_stock_validate(from_store_id, to_store_id, product_id, quantity) ==
  IF quantity <= 0 THEN "Transfer quantity must be positive"
  ELSE IF same_store(from_store_id, to_store_id) THEN "Cannot transfer to the same store"
  ELSE IF get_store_by_id(from_store_id) = None THEN "Source store not found"
  ELSE IF get_store_by_id(to_store_id) = None THEN "Destination store not found"
  ELSE IF get_product_by_id(product_id) = None THEN "Product not found"
  ELSE "ok"

\* variant: only a missing source row is refused
insufficient_source_missing_only(from_inventory, quantity) == from_inventory = NoRow

\* not from_inventory or from_inventory.quantity < quantity
insufficient_source(from_inventory, quantity) ==
  from_inventory = NoRow \/ from_inventory.quantity < quantity

\* variant: the source is decremented twice
from_new_quantity_twice(from_inventory, quantity) == from_inventory.quantity - 2 * quantity

\* from_inventory.quantity -= quantity
from_new_quantity(from_inventory, quantity) == from_inventory.quantity - quantity

\* to_inventory.quantity += quantity; one object per row in a session, so a
\* destination that is the source row already carries the decrement
to_new_quantity(from_inventory, to_inventory, quantity) ==
  (IF to_inventory # NoRow /\ to_inventory.id = from_inventory.id
   THEN from_new_quantity(from_inventory, quantity)
   ELSE loaded_quantity(to_inventory)) + quantity

\* variant: the rows log both sides of the movement
transfer_row_quantity_doubled(quantity) == 2 * quantity

\* quantity column of the two TRANSFER rows
transfer_row_quantity(quantity) == quantity

\* flush + COMMIT of transfer_stock: both item rows and both Transaction rows;
\* the timestamp default is evaluated once per inserted row
transfer_stock_flush(items, txs, from_inventory, to_inventory, from_store_id, to_store_id, product_id, quantity, ts_out, ts_in) ==
  [items |-> flush_item(
               flush_item(items, from_inventory, from_store_id, product_id,
                          from_new_quantity(from_inventory, quantity)),
               to_inventory, to_store_id, product_id,
               to_new_quantity(from_inventory, to_inventory, quantity)),
   txs |-> txs \cup
           {Transaction(NextId(txs), product_id, from_store_id, "TRANSFER",
                        transfer_row_quantity(quantity), ts_out,
                        "Transfer OUT to", to_store_id, actor),
            Transaction(NextId(txs) + 1, product_id, to_store_id, "TRANSFER",
                        transfer_row_quantity(quantity), ts_in,
                        "Transfer IN from", from_store_id, actor)}]

\* the dict transfer_stock returns: the commit expired the two items, whose
\* quantities are read back; the timestamp is the one of out_transaction
transfer_stock_result(items, from_store_id, to_store_id, product_id, out_id, ts_out) ==
  [NoResult EXCEPT !.op = "transfer_stock", !.ok = TRUE,
     !.new_quantity = refresh_quantity(items, from_store_id, product_id),
     !.to_new_quantity = refresh_quantity(items, to_store_id, product_id),
     !.transaction_id = out_id, !.to_transaction_id = out_id + 1,
     !.timestamp = ts_out]

\* one call of transfer_stock on the committed tables, the timestamp default
\* reading ts_out and then ts_in: the tables it leaves and what it returns or
\* raises
transfer_stock_call(items, txs, from_store_id, to_store_id, product_id, quantity, ts_out, ts_in) ==
  LET v == transfer_stock_validate(from_store_id, to_store_id, product_id, quantity)
      from_inventory == get_inventory_item(items, from_store_id, product_id)
      to_inventory == get_inventory_item(items, to_store_id, product_id)
  IN IF v # "ok"
     THEN [items |-> items, txs |-> txs, result |-> Raise("transfer_stock", v, 0, 0)]
     ELSE IF insufficient_source(from_inventory, quantity)
     THEN [items |-> items, txs |-> txs,
           result |-> Raise("transfer_stock", "Insufficient stock at source store",
                            loaded_quantity(from_inventory), quantity)]
     ELSE LET db == transfer_stock_flush(items, txs, from_inventory, to_inventory,
                      from_store_id, to_store_id, product_id, quantity, ts_out, ts_in)
          IN [items |-> db.items, txs |-> db.txs,
              result |-> transfer_stock_result(db.items, from_store_id, to_store_id,
                                               product_id, NextId(txs), ts_out)]

\* the step of one call; a call that raises inserted no row
transfer_stock(from_store_id, to_store_id, product_id, quantity) ==
  LET raised == transfer_stock_call(inventory_items, transactions, from_store_id,
                                    to_store_id, product_id, quantity, now, now)
  IN IF ~ raised.result.ok
     THEN Commit(raised) /\ now' = now
     ELSE /\ Cardinality(transactions) < MaxTx
          /\ \E ts_out \in Clock(now) : \E ts_in \in Clock(ts_out) :
               /\ Commit(transfer_stock_call(inventory_items, transactions,
                            from_store_id, to_store_id, product_id, quantity,
                            ts_out, ts_in))
               /\ now' = ts_in

(* ------------------------------ products ------------------------------ *)
\* Product.reorder_level default, also the default of add_product's argument
DefaultReorderLevel == 10
\* reorder levels a request may give
ReorderLevels == {0, DefaultReorderLevel}

\* a row of table products (the columns the ledger and the reports read)
Product(id, sku, reorder_level) ==
  [id |-> id, sku |-> sku, reorder_level |-> reorder_level]

\* Product.query.filter_by(sku=sku).first()
get_product_by_sku(sku) == {r \in product_rows : r.sku = sku}

\* variant: answering a request writes a row to the transaction log
Answer_logged(result) ==
  /\ last' = result
  /\ transactions' = transactions \cup
       {Transaction(NextId(transactions), None, None, "READ", 0, now, result.op, None,
                    actor)}
  /\ UNCHANGED <<inventory_items, now, session>>

\* what a request that only reads the ledger answers; the ledger tables stay
\* as they are
Answer(result) ==
  /\ last' = result
  /\ UNCHANGED <<inventory_items, transactions, now, session>>

\* InventoryService.add_product behind POST /api/products
add_product(sku, reorder_level) ==
  IF get_product_by_sku(sku) # {}
  THEN /\ Answer(Raise("add_product", "Product with SKU already exists", 0, 0))
       /\ UNCHANGED product_rows
  ELSE LET product == Product(NextId(product_rows), sku, reorder_level)
       IN /\ product.id \in ProductIds
          /\ product_rows' = product_rows \cup {product}
          /\ Answer([NoResult EXCEPT !.op = "add_product", !.ok = TRUE,
                                     !.rows = <<product>>])

\* InventoryService.update_product behind PUT /api/products/<id>, with a
\* reorder_level in the request body
update_product(product_id, reorder_level) ==
  IF get_product_by_id(product_id) = None
  THEN /\ Answer(Raise("update_product", "Product not found", 0, 0))
       /\ UNCHANGED product_rows
  ELSE LET product == CHOOSE r \in product_rows : r.id = product_id
           updated == [product EXCEPT !.reorder_level = reorder_level]
       IN /\ product_rows' = (product_rows \ {product}) \cup {updated}
          /\ Answer([NoResult EXCEPT !.op = "update_product", !.ok = TRUE,
                                     !.rows = <<updated>>])

\* variant: sku is among the fields a request may set
allowed_fields_with_sku ==
  {"sku", "name", "category", "reorder_level", "unit_cost", "selling_price"}

\* allowed_fields of update_product
allowed_fields ==
  {"name", "category", "reorder_level", "unit_cost", "selling_price"}

\* the bodies of PUT /api/products/<id> a client may send: fields of the row,
\* among them the sku
Kwargs ==
  {[reorder_level |-> 0], [sku |-> "B"], [sku |-> "A", reorder_level |-> 0],
   [id |-> 2, sku |-> "B"]}

\* InventoryService.update_product(product_id, **kwargs): setattr for the
\* fields of kwargs that are allowed, then commit
update_product_fields(product_id, kwargs) ==
  IF get_product_by_id(product_id) = None
  THEN /\ Answer(Raise("update_product", "Product not found", 0, 0))
       /\ UNCHANGED product_rows
  ELSE LET product == CHOOSE r \in product_rows : r.id = product_id
           updated == [field \in DOMAIN product |->
                         IF field \in DOMAIN kwargs /\ field \in allowed_fields
                         THEN kwargs[field]
                         ELSE product[field]]
       IN /\ product_rows' = (product_rows \ {product}) \cup {updated}
          /\ Answer([NoResult EXCEPT !.op = "update_product", !.ok = TRUE,
                                     !.rows = <<updated>>])

\* what the flush of db.session.delete(product) does to table transactions:
\* relationship Product.transactions has no delete cascade, so the unit of
\* work detaches the product's rows by setting their product_id to NULL
delete_product_detach(txs, product_id) ==
  {[t EXCEPT !.product_id = IF @ = product_id THEN None ELSE @] : t \in txs}

\* transactions.product_id is NOT NULL: the flush raises IntegrityError
not_null_violated_unchecked(txs) == FALSE

not_null_violated(txs) == \E t \in txs : t.product_id = None

\* relationship Product.inventory_items cascades "all, delete-orphan"
delete_product_cascade(items, product_id) ==
  {r \in items : r.product_id # product_id}

\* DELETE /api/products/<id>
delete_product(product_id) ==
  LET detached == delete_product_detach(transactions, product_id)
  IN IF get_product_by_id(product_id) = None
     THEN /\ Answer(Raise("delete_product", "Product not found", 0, 0))
          /\ UNCHANGED product_rows
     ELSE IF not_null_violated(detached)
     THEN /\ Answer(Raise("delete_product", "IntegrityError", 0, 0))
          /\ UNCHANGED product_rows
     ELSE /\ product_rows' = {r \in product_rows : r.id # product_id}
          /\ inventory_items' = delete_product_cascade(inventory_items, product_id)
          /\ transactions' = detached
          /\ last' = [NoResult EXCEPT !.op = "delete_product", !.ok = TRUE]
          /\ UNCHANGED <<now, session>>

(* ------------------------------ reports ------------------------------- *)
\* the rows of a query in the order of their ids
RECURSIVE ById(_)
ById(rows) ==
  IF rows = {} THEN <<>>
  ELSE LET r == CHOOSE x \in rows : \A o \in rows : x.id <= o.id
       IN <<r>> \o ById(rows \ {r})

\* filter(InventoryItem.quantity <= Product.reorder_level)
low_stock_below_only(quantity, reorder_level) == quantity < reorder_level

low_stock(quantity, reorder_level) == quantity <= reorder_level

\* InventoryService.get_low_stock_items: InventoryItem joined to its Product,
\* the item's columns with reorder_level and shortage added
get_low_stock_items(items, store_id) ==
  LET joined == {<<i, p>> \in items \X product_rows : i.product_id = p.id}
      low == {j \in joined : low_stock(j[1].quantity, j[2].reorder_level)}
      results == IF store_id # None
                 THEN {j \in low : j[1].store_id = store_id}
                 ELSE low
  IN {[id |-> j[1].id, store_id |-> j[1].store_id, product_id |-> j[1].product_id,
       quantity |-> j[1].quantity, reorder_level |-> j[2].reorder_level,
       shortage |-> j[2].reorder_level - j[1].quantity] : j \in results}

\* GET /api/reports/low-stock, store_id None when the query string has none
get_low_stock(store_id) ==
  /\ Answer([NoResult EXCEPT !.op = "get_low_stock_items", !.ok = TRUE,
                             !.rows = ById(get_low_stock_items(inventory_items, store_id))])
  /\ UNCHANGED product_rows

\* .limit(100) of the polling query
ChangesLimit == 100

\* ORDER BY timestamp DESC: every order of the rows in which no row comes
\* before a newer one (the order of rows of one timestamp is the database's)
RECURSIVE order_by_timestamp_desc(_)
order_by_timestamp_desc(rows) ==
  IF rows = {} THEN {<<>>}
  ELSE LET newest == {r \in rows : \A o \in rows : o.timestamp <= r.timestamp}
       IN UNION {{<<r>> \o rest : rest \in order_by_timestamp_desc(rows \ {r})} :
                 r \in newest}

\* LIMIT n
limit(rows, n) == SubSeq(rows, 1, IF Len(rows) < n THEN Len(rows) ELSE n)

\* filter(Transaction.timestamp > since_timestamp)
changed_since_inclusive(txs, since) == {t \in txs : t.timestamp >= since}

changed_since(txs, since) == {t \in txs : t.timestamp > since}

\* the change entry of one transaction: the row and the quantity its pair
\* has when the request runs
change(items, t) ==
  [transaction |-> t,
   current_quantity |-> loaded_quantity(get_inventory_item(items, t.store_id, t.product_id))]

\* the 'changes' lists GET /api/changes?since=... may answer
get_changes_query(items, txs, since) ==
  {[i \in DOMAIN limit(rows, ChangesLimit) |-> change(items, rows[i])] :
     rows \in order_by_timestamp_desc(changed_since(txs, since))}

\* GET /api/changes: the changes and the clock reading of the response
get_changes(since) ==
  \E changes \in get_changes_query(inventory_items, transactions, since) :
    \E ts \in Clock(now) :
      /\ last' = [NoResult EXCEPT !.op = "get_changes", !.ok = TRUE,
                                  !.rows = changes, !.timestamp = ts]
      /\ now' = ts
      /\ UNCHANGED <<inventory_items, transactions, session, product_rows>>

\* default of the limit argument of GET /api/transactions
RecentLimit == 50

\* limit of the dashboard's recent transactions
DashboardLimit == 10

\* variant: the store filter is applied to the rows the limit has kept
get_recent_transactions_limit_first(txs, n, store_id) ==
  {SelectSeq(limit(rows, n), LAMBDA t : store_id # None => t.store_id = store_id) :
     rows \in order_by_timestamp_desc(txs)}

\* InventoryService.get_recent_transactions: the lists the query may return,
\* ORDER BY timestamp DESC, the store filter when store_id is truthy, LIMIT n
get_recent_transactions(txs, n, store_id) ==
  LET query == IF store_id # None
               THEN {t \in txs : t.store_id = store_id}
               ELSE txs
  IN {limit(rows, n) : rows \in order_by_timestamp_desc(query)}

\* GET /api/transactions?limit=n&store_id=...
get_transactions(n, store_id) ==
  \E rows \in get_recent_transactions(transactions, n, store_id) :
    /\ Answer([NoResult EXCEPT !.op = "get_recent_transactions", !.ok = TRUE,
                               !.rows = rows])
    /\ UNCHANGED product_rows

\* sum(r.quantity for r in rows), func.sum(quantity)
RECURSIVE sum_quantity(_)
sum_quantity(rows) ==
  IF rows = {} THEN 0
  ELSE LET r == CHOOSE x \in rows : TRUE
       IN r.quantity + sum_quantity(rows \ {r})

\* an optional date of the report: <<>> for None, <<t>> for the date t
Dates == {<<>>} \cup {<<t>> : t \in 0..MaxClock}

\* variant: the start of the window is exclusive
not_before_exclusive(timestamp, start_date) ==
  start_date # <<>> => timestamp > start_date[1]

\* if start_date: filter(Transaction.timestamp >= start_date)
not_before(timestamp, start_date) ==
  start_date # <<>> => timestamp >= start_date[1]

\* if end_date: filter(Transaction.timestamp <= end_date)
not_after(timestamp, end_date) ==
  end_date # <<>> => timestamp <= end_date[1]

\* InventoryService.generate_stock_report
generate_stock_report(items, txs, start_date, end_date, store_id) ==
  LET query == {t \in txs : /\ not_before(t.timestamp, start_date)
                            /\ not_after(t.timestamp, end_date)
                            /\ store_id # None => t.store_id = store_id}
      total_in == sum_quantity({t \in query : /\ t.type \in {"IN", "TRANSFER"}
                                              /\ t.store_id = store_id})
      total_out == sum_quantity({t \in query : t.type = "OUT"})
      total_transfers_in == sum_quantity({t \in query : /\ t.type = "TRANSFER"
                                                        /\ t.store_id = store_id})
      total_transfers_out == sum_quantity({t \in query : /\ t.type = "TRANSFER"
                                                         /\ t.related_store_id # None})
      inventory_query == IF store_id # None
                         THEN {i \in items : i.store_id = store_id}
                         ELSE items
  IN [total_in |-> total_in,
      total_out |-> total_out,
      total_transfers_in |-> total_transfers_in,
      total_transfers_out |-> total_transfers_out,
      net_change |-> total_in - total_out,
      transactions |-> query,
      inventory_summary |->
        {[store_id |-> s,
          total_products |-> Cardinality({i \in inventory_query : i.store_id = s}),
          total_units |-> sum_quantity({i \in inventory_query : i.store_id = s})] :
           s \in {i.store_id : i \in inventory_query}}]

\* GET /api/reports/stock?start_date=...&end_date=...&store_id=...
get_stock_report(start_date, end_date, store_id) ==
  /\ Answer([NoResult EXCEPT !.op = "generate_stock_report", !.ok = TRUE,
               !.report = generate_stock_report(inventory_items, transactions,
                                                start_date, end_date, store_id)])
  /\ UNCHANGED product_rows

\* variant: the low-stock count compares with the default reorder level
get_dashboard_kpis_default_level(items) ==
  [total_products |-> Cardinality(product_rows),
   total_units |-> sum_quantity(items),
   low_stock_count |->
     Cardinality({i \in items : low_stock(i.quantity, DefaultReorderLevel)}),
   total_stores |-> Cardinality(stores)]

\* the counters of InventoryService.get_dashboard_kpis
get_dashboard_kpis(items) ==
  [total_products |-> Cardinality(product_rows),
   total_units |-> sum_quantity(items),
   low_stock_count |->
     Cardinality({j \in {<<i, p>> \in items \X product_rows : i.product_id = p.id} :
                    low_stock(j[1].quantity, j[2].reorder_level)}),
   total_stores |-> Cardinality(stores)]

\* GET /api/reports/dashboard
get_dashboard ==
  \E recent_transactions \in
       get_recent_transactions(transactions, DashboardLimit, None) :
    /\ Answer([NoResult EXCEPT !.op = "get_dashboard_kpis", !.ok = TRUE,
                               !.kpis = get_dashboard_kpis(inventory_items),
                               !.rows = recent_transactions])
    /\ UNCHANGED product_rows

(* --------------------------- authentication --------------------------- *)
\* POST /api/auth/login with the password of the user: the session takes the
\* user's id, name and role
login(username) ==
  /\ \E u \in users :
       /\ u.username = username
       /\ user' = LoggedIn(u)
       /\ Answer([NoResult EXCEPT !.op = "login", !.ok = TRUE, !.rows = <<u>>])
  /\ UNCHANGED <<product_rows, handler, feed, poll, rooms, inbox>>

\* POST /api/auth/login with a wrong password or an unknown name
login_refused ==
  /\ Answer(Raise("login", "Invalid credentials", 0, 0))
  /\ UNCHANGED api_vars

\* POST /api/auth/logout: session.clear()
logout ==
  /\ user' = NoUser
  /\ Answer([NoResult EXCEPT !.op = "logout", !.ok = TRUE])
  /\ UNCHANGED <<product_rows, handler, feed, poll, rooms, inbox>>

\* require_auth(): None when 'user_id' is in the session
require_auth == user.user_id # None

\* require_admin(): None when the session's role is admin
require_admin == require_auth /\ user.role = "admin"

\* a route that starts with require_auth(): the handler runs for a client
\* that has logged in, whatever its role, and 401 is answered otherwise
authenticated(op, handle) ==
  IF require_auth
  THEN handle
  ELSE /\ Answer(Raise(op, "Authentication required", 0, 0))
       /\ UNCHANGED api_vars

\* GET /api/users
list_users ==
  /\ Answer(IF require_admin
            THEN [NoResult EXCEPT !.op = "list_users", !.ok = TRUE, !.rows = ById(users)]
            ELSE IF require_auth
            THEN Raise("list_users", "Admin privileges required", 0, 0)
            ELSE Raise("list_users", "Authentication required", 0, 0))
  /\ UNCHANGED api_vars

(* --------------------------- the change feed --------------------------- *)
\* the JSON body of a request to the broadcasting handlers
Data(op, store_id, to_store_id, product_id, amount) ==
  [op |-> op, store_id |-> store_id, to_store_id |-> to_store_id,
   product_id |-> product_id, amount |-> amount]

NoData == Data("none", None, None, None, 0)

IdleHandler == [pc |-> "idle", data |-> NoData, result |-> NoResult]

\* where the handler goes when the service call is over: a ValueError leaves
\* the try block for the 400 response, a result goes on to the broadcast
after_service_always_broadcast(data, result) ==
  [pc |-> "broadcast", data |-> data, result |-> result]

after_service(data, result) ==
  IF result.ok
  THEN [pc |-> "broadcast", data |-> data, result |-> result]
  ELSE IdleHandler

\* POST /api/inventory/update of the application, up to the return of
\* service.update_stock
api_update_inventory(store_id, product_id, delta) ==
  /\ handler.pc = "idle"
  /\ update_stock(store_id, product_id, delta)
  /\ handler' = after_service(Data("update_stock", store_id, None, product_id, delta),
                              last')
  /\ UNCHANGED <<product_rows, feed, poll, user, rooms, inbox>>

\* POST /api/inventory/transfer of the application, up to the return of
\* service.transfer_stock
api_transfer_inventory(from_store, to_store, product_id, quantity) ==
  /\ handler.pc = "idle"
  /\ transfer_stock(from_store, to_store, product_id, quantity)
  /\ handler' = after_service(Data("transfer_stock", from_store, to_store,
                                   product_id, quantity), last')
  /\ UNCHANGED <<product_rows, feed, poll, user, rooms, inbox>>

\* update_data of broadcast_inventory_update
inventory_update(data, result) ==
  [type |-> "inventory_update", product_id |-> data.product_id,
   store_id |-> data.store_id, to_store_id |-> None, quantity |-> 0,
   new_qty |-> result.new_quantity, to_new_qty |-> 0,
   transaction_id |-> result.transaction_id, to_transaction_id |-> None,
   timestamp |-> result.timestamp]

\* transfer_data of broadcast_transfer_update, transaction_data being the result
transfer_update(data, result) ==
  [type |-> "transfer_update", product_id |-> data.product_id,
   store_id |-> data.store_id, to_store_id |-> data.to_store_id,
   quantity |-> data.amount,
   new_qty |-> result.new_quantity, to_new_qty |-> result.to_new_quantity,
   transaction_id |-> result.transaction_id,
   to_transaction_id |-> result.to_transaction_id,
   timestamp |-> result.timestamp]

\* what the handler emits to all connected clients
notification(data, result) ==
  IF data.op = "update_stock"
  THEN inventory_update(data, result)
  ELSE transfer_update(data, result)

\* the store rooms the handler emits to after the emit to all clients, in the
\* order of the emits: store_<store_id>, or store_<from_store_id> and then
\* store_<to_store_id>
store_rooms(data) ==
  IF data.op = "update_stock"
  THEN <<data.store_id>>
  ELSE <<data.store_id, data.to_store_id>>

\* socketio.emit('store_inventory_update' or 'store_transfer_update', ...,
\* room=...): the same data as the notification to all clients
store_event(data, result, room) ==
  [event |-> IF data.op = "update_stock"
             THEN "store_inventory_update"
             ELSE "store_transfer_update",
   room |-> room, data |-> notification(data, result)]

\* variant: an emit with room= reaches every connected client
deliveries_to_all(data, result, joined, k) ==
  [i \in 1..k |-> store_event(data, result, store_rooms(data)[i])]

\* what the first k emits to store rooms deliver to a client that is in the
\* rooms `joined`: one event for every emit to a room it is in
deliveries(data, result, joined, k) ==
  SelectSeq([i \in 1..k |-> store_event(data, result, store_rooms(data)[i])],
            LAMBDA e : e.room \in joined)

\* the rest of the handler when every socketio.emit returns: the notification
\* goes to all connected clients, the store events to the rooms, and the
\* caller is answered with the result
broadcast ==
  /\ handler.pc = "broadcast"
  /\ feed' = Append(feed, notification(handler.data, handler.result))
  /\ inbox' = inbox \o deliveries(handler.data, handler.result, rooms,
                                  Len(store_rooms(handler.data)))
  /\ handler' = IdleHandler
  /\ last' = handler.result
  /\ UNCHANGED <<inventory_items, transactions, now, session, product_rows, poll,
               user, rooms>>

\* what the caller is answered when an emit raises: the broadcast is inside
\* the handler's try block, so except Exception answers 500 with the message
emit_error(data, result) == Raise(data.op, "Internal server error", 0, 0)

\* the rest of the handler when a socketio.emit raises: the first emit (to
\* all clients) delivered nothing, or it was delivered and a later emit (to
\* a store room) raised; the handler has no rollback and the commit is done
broadcast_raises(delivered) ==
  /\ handler.pc = "broadcast"
  /\ feed' = IF delivered
             THEN Append(feed, notification(handler.data, handler.result))
             ELSE feed
  /\ IF delivered
     THEN \E k \in 0..(Len(store_rooms(handler.data)) - 1) :
            inbox' = inbox \o deliveries(handler.data, handler.result, rooms, k)
     ELSE inbox' = inbox
  /\ handler' = IdleHandler
  /\ last' = emit_error(handler.data, handler.result)
  /\ UNCHANGED <<inventory_items, transactions, now, session, product_rows, poll,
               user, rooms>>

\* join_store of a connected client: join_room("store_<store_id>")
join_store(store_id) ==
  /\ rooms' = IF require_auth /\ store_id # None THEN rooms \cup {store_id} ELSE rooms
  /\ UNCHANGED <<inventory_items, transactions, now, last, session, product_rows,
               handler, feed, poll, user, inbox>>

\* leave_store of a connected client: leave_room("store_<store_id>")
leave_store(store_id) ==
  /\ rooms' = IF require_auth /\ store_id # None THEN rooms \ {store_id} ELSE rooms
  /\ UNCHANGED <<inventory_items, transactions, now, last, session, product_rows,
               handler, feed, poll, user, inbox>>

\* POST /api/inventory/update of the blueprint: the service call and the
\* response, no broadcast
update_inventory(store_id, product_id, delta) ==
  /\ handler.pc = "idle"
  /\ update_stock(store_id, product_id, delta)
  /\ UNCHANGED <<product_rows, handler, feed, poll, user, rooms, inbox>>

\* POST /api/inventory/transfer of the blueprint
transfer_inventory(from_store, to_store, product_id, quantity) ==
  /\ handler.pc = "idle"
  /\ transfer_stock(from_store, to_store, product_id, quantity)
  /\ UNCHANGED <<product_rows, handler, feed, poll, user, rooms, inbox>>

\* the polling client: GET /api/changes with its `since`, which then becomes
\* the greatest timestamp of the transactions it was sent
poll_changes ==
  /\ get_changes(poll.since)
  /\ poll' = [since |-> IF last'.rows = <<>> THEN poll.since
                        ELSE SetMax({last'.rows[i].transaction.timestamp :
                                       i \in DOMAIN last'.rows}),
              seen |-> poll.seen \cup {last'.rows[i].transaction.id :
                                         i \in DOMAIN last'.rows}]
  /\ UNCHANGED <<handler, feed, user, rooms, inbox>>

(* ------------------- the calls of concurrent workers ------------------ *)
\* Each request runs in its own scoped session on its own connection.  Rows
\* a session has loaded keep the values of the SELECT that loaded them; the
\* flush writes the values computed from them.
NoArgs == [op |-> "none", store_id |-> None, to_store_id |-> None,
           product_id |-> None, amount |-> 0]

Idle == [pc |-> "idle", args |-> NoArgs, item |-> NoRow, to_item |-> NoRow,
         result |-> NoResult]

\* the call of worker w returns (a result or a raised error) and its session ends
Return(w, result) ==
  /\ session' = [session EXCEPT ![w] =
                   [Idle EXCEPT !.args = session[w].args, !.result = result]]
  /\ UNCHANGED last

Goto(w, pc, item, to_item, result) ==
  /\ session' = [session EXCEPT ![w] =
                   [pc |-> pc, args |-> session[w].args, item |-> item,
                    to_item |-> to_item, result |-> result]]
  /\ UNCHANGED last

\* variant: the row is read FOR UPDATE, and the read waits while the open call
\* of another worker holds the row it has read
select_waits_for_update(w, store_id, product_id) ==
  \E v \in Workers \ {w} :
    /\ session[v].pc \in {"us_commit", "ts_get_to", "ts_commit"}
    /\ \/ /\ session[v].item.store_id = store_id
          /\ session[v].item.product_id = product_id
       \/ /\ session[v].to_item.store_id = store_id
          /\ session[v].to_item.product_id = product_id

\* whether the read of the row of (store_id, product_id) by worker w has to
\* wait for another session: filter_by(...).first() is a plain SELECT, no
\* with_for_update() and no lock of the application, so it never does
select_waits(w, store_id, product_id) ==
  FALSE

\* update_stock up to the lookups of store and product
us_begin(w, store_id, product_id, delta) ==
  LET args == [op |-> "update_stock", store_id |-> store_id, to_store_id |-> None,
               product_id |-> product_id, amount |-> delta]
      v == update_stock_validate(store_id, product_id, delta)
  IN /\ session[w].pc = "idle"
     /\ Cardinality(transactions) < ConcMaxTx
     /\ rollback
     /\ UNCHANGED last
     /\ session' = [session EXCEPT ![w] =
          IF v # "ok"
          THEN [Idle EXCEPT !.args = args, !.result = Raise("update_stock", v, 0, 0)]
          ELSE [Idle EXCEPT !.args = args, !.pc = "us_get_item"]]

\* get_inventory_item and the stock check on the row it loaded
us_get_item(w) ==
  LET args == session[w].args
      inventory_item == get_inventory_item(inventory_items, args.store_id, args.product_id)
  IN /\ session[w].pc = "us_get_item"
     /\ ~ select_waits(w, args.store_id, args.product_id)
     /\ rollback
     /\ IF insufficient_stock(loaded_quantity(inventory_item) + args.amount)
        THEN Return(w, Raise("update_stock", "Insufficient stock",
                             loaded_quantity(inventory_item), abs(args.amount)))
        ELSE Goto(w, "us_commit", inventory_item, NoRow, NoResult)

\* db.session.commit(): flush and COMMIT, or IntegrityError and rollback
us_commit(w) ==
  LET args == session[w].args
      inventory_item == session[w].item
  IN /\ session[w].pc = "us_commit"
     /\ IF flush_conflict(inventory_items, inventory_item, args.store_id, args.product_id)
        THEN Return(w, Raise("update_stock", "IntegrityError", 0, 0)) /\ rollback
        ELSE \E ts \in Clock(now) :
               LET db == update_stock_flush(inventory_items, transactions, inventory_item,
                           args.store_id, args.product_id, args.amount, ts)
               IN /\ inventory_items' = db.items
                  /\ transactions' = db.txs
                  /\ now' = ts
                  /\ Return(w, update_stock_result(inventory_item, args.amount,
                                                   transactions, ts))

\* transfer_stock up to the lookups of the stores and the product
ts_enter(w, from_store_id, to_store_id, product_id, quantity) ==
  LET args == [op |-> "transfer_stock", store_id |-> from_store_id,
               to_store_id |-> to_store_id, product_id |-> product_id,
               amount |-> quantity]
      v == transfer_stock_validate(from_store_id, to_store_id, product_id, quantity)
  IN /\ session[w].pc = "idle"
     /\ rollback
     /\ UNCHANGED last
     /\ session' = [session EXCEPT ![w] =
          IF v # "ok"
          THEN [Idle EXCEPT !.args = args, !.result = Raise("transfer_stock", v, 0, 0)]
          ELSE [Idle EXCEPT !.args = args, !.pc = "ts_get_from"]]

\* a call of transfer_stock while the log has room
ts_begin(w, from_store_id, to_store_id, product_id, quantity) ==
  /\ Cardinality(transactions) < ConcMaxTx
  /\ ts_enter(w, from_store_id, to_store_id, product_id, quantity)

\* get_inventory_item of the source and the stock check on the row it loaded
ts_get_from(w) ==
  LET args == session[w].args
      from_inventory == get_inventory_item(inventory_items, args.store_id, args.product_id)
  IN /\ session[w].pc = "ts_get_from"
     /\ ~ select_waits(w, args.store_id, args.product_id)
     /\ rollback
     /\ IF insufficient_source(from_inventory, args.amount)
        THEN Return(w, Raise("transfer_stock", "Insufficient stock at source store",
                             loaded_quantity(from_inventory), args.amount))
        ELSE Goto(w, "ts_get_to", from_inventory, NoRow, NoResult)

\* get_inventory_item of the destination
ts_get_to(w) ==
  /\ session[w].pc = "ts_get_to"
  /\ ~ select_waits(w, session[w].args.to_store_id, session[w].args.product_id)
  /\ rollback
  /\ Goto(w, "ts_commit", session[w].item,
          get_inventory_item(inventory_items, session[w].args.to_store_id,
                             session[w].args.product_id),
          NoResult)

\* db.session.commit(): flush and COMMIT, or IntegrityError and rollback
ts_commit(w) ==
  LET args == session[w].args
      from_inventory == session[w].item
      to_inventory == session[w].to_item
  IN /\ session[w].pc = "ts_commit"
     /\ IF flush_conflict(inventory_items, to_inventory, args.to_store_id, args.product_id)
        THEN Return(w, Raise("transfer_stock", "IntegrityError", 0, 0)) /\ rollback
        ELSE \E ts_out \in Clock(now) : \E ts_in \in Clock(ts_out) :
               LET db == transfer_stock_flush(inventory_items, transactions,
                           from_inventory, to_inventory, args.store_id, args.to_store_id,
                           args.product_id, args.amount, ts_out, ts_in)
               IN /\ inventory_items' = db.items
                  /\ transactions' = db.txs
                  /\ now' = ts_in
                  /\ Goto(w, "ts_return", from_inventory, to_inventory,
                          [NoResult EXCEPT !.transaction_id = NextId(transactions),
                                           !.timestamp = ts_out])

\* db.session.commit() while another session is writing: SQLite has one write
\* lock for the file, a COMMIT that does not get it within the busy timeout
\* raises OperationalError (database is locked), the except clause rolls back
ts_commit_locked(w) ==
  /\ session[w].pc = "ts_commit"
  /\ \E v \in Workers \ {w} : session[v].pc \in {"us_commit", "ts_commit"}
  /\ rollback
  /\ Return(w, Raise("transfer_stock", "OperationalError", 0, 0))

\* the return statement, reading the expired items back from the table
ts_return(w) ==
  LET args == session[w].args
  IN /\ session[w].pc = "ts_return"
     /\ rollback
     /\ Return(w, transfer_stock_result(inventory_items, args.store_id, args.to_store_id,
                                        args.product_id, session[w].result.transaction_id,
                                        session[w].result.timestamp))

(* --------------------------- specification ---------------------------- *)
Init ==
  /\ inventory_items = {}
  /\ transactions = {}
  /\ now = 0
  /\ last = NoResult
  /\ session = [w \in Workers |-> Idle]
  /\ product_rows = {Product(p, "A", DefaultReorderLevel) : p \in products}
  /\ handler = IdleHandler
  /\ feed = <<>>
  /\ poll = [since |-> 0 - 1, seen |-> {}]
  /\ user = Admin
  /\ rooms = {}
  /\ inbox = <<>>

Next ==
  \/ \E s \in StoreIds, p \in ProductIds, d \in Deltas :
       update_stock(s, p, d) /\ UNCHANGED api_vars
  \/ \E f \in StoreIds, t \in StoreIds, p \in ProductIds, q \in Quantities :
       transfer_stock(f, t, p, q) /\ UNCHANGED api_vars

Spec == Init /\ [][Next]_vars

ConcNext ==
  \/ \E w \in Workers, s \in stores, p \in products, d \in ConcDeltas :
       us_begin(w, s, p, d) /\ UNCHANGED api_vars
  \/ \E w \in Workers : us_get_item(w) /\ UNCHANGED api_vars
  \/ \E w \in Workers : us_commit(w) /\ UNCHANGED api_vars
  \/ \E w \in Workers, f \in stores, t \in stores, p \in products, q \in ConcQuantities :
       ts_begin(w, f, t, p, q) /\ UNCHANGED api_vars
  \/ \E w \in Workers : ts_get_from(w) /\ UNCHANGED api_vars
  \/ \E w \in Workers : ts_get_to(w) /\ UNCHANGED api_vars
  \/ \E w \in Workers : ts_commit(w) /\ UNCHANGED api_vars
  \/ \E w \in Workers : ts_return(w) /\ UNCHANGED api_vars

ConcSpec == Init /\ [][ConcNext]_vars

\* the race for the first row of a pair: workers that only increase stock by
\* one or move one unit from store 1 to store 2
\* add_product up to the lookup of the sku
ap_begin(w, sku, reorder_level) ==
  LET args == [op |-> "add_product", store_id |-> None, to_store_id |-> None,
               product_id |-> None, amount |-> reorder_level, sku |-> sku]
  IN /\ session[w].pc = "idle"
     /\ UNCHANGED <<last, product_rows>>
     /\ rollback
     /\ session' = [session EXCEPT ![w] =
          IF get_product_by_sku(sku) # {}
          THEN [Idle EXCEPT !.args = args,
                            !.result = Raise("add_product",
                                             "Product with SKU already exists", 0, 0)]
          ELSE [Idle EXCEPT !.args = args, !.pc = "ap_commit"]]

\* variant: column sku has no unique constraint
sku_taken_unconstrained(rows, sku) == FALSE

\* unique=True of Product.sku: the INSERT of a second row with the sku fails
sku_taken(rows, sku) == \E r \in rows : r.sku = sku

\* db.session.add(product) and db.session.commit(): the row is inserted, or
\* the unique constraint raises IntegrityError, which is rolled back and
\* raised again as the ValueError of an existing sku
ap_commit(w) ==
  LET args == session[w].args
      product == Product(NextId(product_rows), args.sku, args.amount)
  IN /\ session[w].pc = "ap_commit"
     /\ rollback
     /\ IF sku_taken(product_rows, args.sku)
        THEN /\ UNCHANGED product_rows
             /\ Return(w, Raise("add_product", "Product with SKU already exists", 0, 0))
        ELSE /\ product_rows' = product_rows \cup {product}
             /\ Return(w, [NoResult EXCEPT !.op = "add_product", !.ok = TRUE,
                                           !.rows = <<product>>])

\* the database as init_db.py leaves it: seed_inventory adds InventoryItem
\* rows for every product, seed_transactions adds Transaction rows for some
\* of the products only (here product 1 has a row and history, product 2 a
\* row and no history)
SeededInit ==
  /\ inventory_items = {[id |-> p, store_id |-> 1, product_id |-> p, quantity |-> 1] :
                           p \in ProductIds}
  /\ transactions = {Transaction(1, 1, 1, "IN", 1, 0, "reason", None, Admin.user_id)}
  /\ now = 0
  /\ last = NoResult
  /\ session = [w \in Workers |-> Idle]
  /\ product_rows = {Product(1, "A", DefaultReorderLevel),
                     Product(2, "B", DefaultReorderLevel)}
  /\ handler = IdleHandler
  /\ feed = <<>>
  /\ poll = [since |-> 0 - 1, seen |-> {}]
  /\ user = Admin
  /\ rooms = {}
  /\ inbox = <<>>

\* the ledger calls and the product routes on the seeded database
SeededNext ==
  \/ \E s \in stores, p \in ProductIds, d \in {0 - 1, 1} :
       update_stock(s, p, d) /\ UNCHANGED api_vars
  \/ \E f \in stores, p \in ProductIds : \E t \in stores \ {f} :
       transfer_stock(f, t, p, 1) /\ UNCHANGED api_vars
  \/ \E sku \in skus : add_product(sku, DefaultReorderLevel) /\ UNCHANGED feed_vars
  \/ \E p \in ProductIds : delete_product(p) /\ UNCHANGED feed_vars

SeededSpec == SeededInit /\ [][SeededNext]_vars

\* the client before its first login
AuthInit ==
  /\ inventory_items = {}
  /\ transactions = {}
  /\ now = 0
  /\ last = NoResult
  /\ session = [w \in Workers |-> Idle]
  /\ product_rows = {Product(p, "A", DefaultReorderLevel) : p \in products}
  /\ handler = IdleHandler
  /\ feed = <<>>
  /\ poll = [since |-> 0 - 1, seen |-> {}]
  /\ user = NoUser
  /\ rooms = {}
  /\ inbox = <<>>

\* a client logs in and out and sends the requests that write the ledger or
\* the catalog, and the request for the list of users
AuthNext ==
  \/ \E u \in users : login(u.username)
  \/ login_refused
  \/ logout
  \/ \E s \in stores, p \in products, d \in {0 - 1, 1} :
       authenticated("update_stock", update_stock(s, p, d) /\ UNCHANGED api_vars)
  \/ \E f \in stores, p \in products : \E t \in stores \ {f} :
       authenticated("transfer_stock", transfer_stock(f, t, p, 1) /\ UNCHANGED api_vars)
  \/ \E sku \in skus :
       authenticated("add_product",
                     add_product(sku, DefaultReorderLevel) /\ UNCHANGED feed_vars)
  \/ \E p \in products, level \in ReorderLevels :
       authenticated("update_product", update_product(p, level) /\ UNCHANGED feed_vars)
  \/ \E p \in ProductIds :
       authenticated("delete_product", delete_product(p) /\ UNCHANGED feed_vars)
  \/ list_users

AuthSpec == AuthInit /\ [][AuthNext]_vars

\* request.get_json() hands the numbers of a body on as they are written, 1
\* as an int and 1.5 as a float, and a column of INTEGER affinity keeps a
\* float with a fraction as it is.  JsonSpec counts every amount in halves: 2
\* is the number 1, 3 the number 1.5.
JsonUnit == 2

\* isinstance(n, int)
is_int(n) == n % JsonUnit = 0

\* update_stock for a delta of the body: the isinstance check comes first
json_update_stock(store_id, product_id, delta) ==
  IF ~ is_int(delta)
  THEN /\ Answer(Raise("update_stock", "Delta must be a non-zero integer", 0, 0))
       /\ UNCHANGED api_vars
  ELSE update_stock(store_id, product_id, delta) /\ UNCHANGED api_vars

\* transfer_stock for a quantity of the body: quantity <= 0 is its only check
json_transfer_stock(from_store_id, to_store_id, product_id, quantity) ==
  transfer_stock(from_store_id, to_store_id, product_id, quantity) /\ UNCHANGED api_vars

\* the deltas -1, 0.5 and 1, and the quantities 0.5 and 1
JsonDeltas == {0 - JsonUnit, 1, JsonUnit}

JsonQuantities == {1, JsonUnit}

\* clients of every role post adjustments and transfers with such numbers
JsonNext ==
  \/ \E u \in users : login(u.username)
  \/ logout
  \/ \E s \in stores, p \in products, d \in JsonDeltas :
       authenticated("update_stock", json_update_stock(s, p, d))
  \/ \E f \in stores, p \in products, q \in JsonQuantities : \E t \in stores \ {f} :
       authenticated("transfer_stock", json_transfer_stock(f, t, p, q))

JsonSpec == AuthInit /\ [][JsonNext]_vars

\* the catalog requests: add_product in two statements per worker, and
\* update_product with a body of any fields
SkuNext ==
  \/ \E w \in Workers, sku \in skus, level \in ReorderLevels :
       ap_begin(w, sku, level) /\ UNCHANGED feed_vars
  \/ \E w \in Workers : ap_commit(w) /\ UNCHANGED feed_vars
  \/ \E p \in ProductIds, kwargs \in Kwargs :
       update_product_fields(p, kwargs) /\ UNCHANGED feed_vars

SkuSpec == Init /\ [][SkuNext]_vars

\* stock of one unit of every product at every store, received at time 0
OppositeSeed ==
  LET pairs == stores \X products
      id == CHOOSE f \in [pairs -> 1..Cardinality(pairs)] :
              \A x \in pairs, y \in pairs : (f[x] = f[y]) => (x = y)
  IN [items |-> {[id |-> id[x], store_id |-> x[1], product_id |-> x[2],
                  quantity |-> 1] : x \in pairs},
      txs |-> {Transaction(id[x], x[2], x[1], "IN", 1, 0, "reason", None,
                              Admin.user_id) :
                 x \in pairs}]

OppositeInit ==
  /\ inventory_items = OppositeSeed.items
  /\ transactions = OppositeSeed.txs
  /\ now = 0
  /\ last = NoResult
  /\ session = [w \in Workers |-> Idle]
  /\ product_rows = {Product(p, "A", DefaultReorderLevel) : p \in products}
  /\ handler = IdleHandler
  /\ feed = <<>>
  /\ poll = [since |-> 0 - 1, seen |-> {}]
  /\ user = Admin
  /\ rooms = {}
  /\ inbox = <<>>

\* worker 1 transfers from store 1 to store 2, worker 2 from store 2 to store 1
opposite_begin(w) ==
  /\ w \in {1, 2}
  /\ Cardinality(transactions) < Cardinality(OppositeSeed.txs) + ConcMaxTx
  /\ \E p \in products, q \in ConcQuantities \ {0} : ts_enter(w, w, 3 - w, p, q)
  /\ UNCHANGED api_vars

\* the next statement of the call of worker w
opposite_step(w) ==
  /\ \/ ts_get_from(w)
     \/ ts_get_to(w)
     \/ ts_commit(w)
     \/ ts_commit_locked(w)
     \/ ts_return(w)
  /\ UNCHANGED api_vars

OppositeNext ==
  \/ \E w \in Workers : opposite_begin(w)
  \/ \E w \in Workers : ts_get_from(w) /\ UNCHANGED api_vars
  \/ \E w \in Workers : ts_get_to(w) /\ UNCHANGED api_vars
  \/ \E w \in Workers : ts_commit(w) /\ UNCHANGED api_vars
  \/ \E w \in Workers : ts_commit_locked(w) /\ UNCHANGED api_vars
  \/ \E w \in Workers : ts_return(w) /\ UNCHANGED api_vars

\* each request runs in a thread of its own (async_mode='threading'), and a
\* thread that can run its next statement is scheduled in the end
OppositeSpec ==
  /\ OppositeInit
  /\ [][OppositeNext]_vars
  /\ \A w \in Workers : WF_vars(opposite_step(w))

RaceNext ==
  \/ \E w \in Workers, s \in stores, p \in products :
       us_begin(w, s, p, 1) /\ UNCHANGED api_vars
  \/ \E w \in Workers : us_get_item(w) /\ UNCHANGED api_vars
  \/ \E w \in Workers : us_commit(w) /\ UNCHANGED api_vars
  \/ \E w \in Workers, p \in products :
       ts_begin(w, 1, 2, p, 1) /\ UNCHANGED api_vars
  \/ \E w \in Workers : ts_get_from(w) /\ UNCHANGED api_vars
  \/ \E w \in Workers : ts_get_to(w) /\ UNCHANGED api_vars
  \/ \E w \in Workers : ts_commit(w) /\ UNCHANGED api_vars
  \/ \E w \in Workers : ts_return(w) /\ UNCHANGED api_vars

RaceSpec == Init /\ [][RaceNext]_vars

(* --------------------- the session's unit of work ---------------------- *)
\* The calls of a worker statement by statement, with what its session holds
\* between db.session.add(...) and db.session.commit(): the InventoryItem
\* objects it added or changed and the Transaction objects it added.
\* the two requests that run at a time
UowWorkers == {1, 2}

NoPending == [items |-> {}, txs |-> <<>>]

UowIdle ==
  [pc |-> "idle", args |-> NoArgs, item |-> NoRow, to_item |-> NoRow,
   result |-> NoResult, pending |-> NoPending]

\* InventoryItem(store_id, product_id, quantity=0) before its INSERT
new_inventory_item(store_id, product_id) ==
  [id |-> None, store_id |-> store_id, product_id |-> product_id, quantity |-> 0]

\* variant: the except clause re-raises without db.session.rollback()
rollback_session_skipped(pending) == pending

\* db.session.rollback(): pending objects are expunged, changed ones expired
rollback_session(pending) == NoPending

\* except Exception as e: db.session.rollback(); raise e
uow_raise(w, result) ==
  /\ session' = [session EXCEPT ![w] =
       [UowIdle EXCEPT !.args = session[w].args, !.result = result,
                       !.pending = rollback_session(session[w].pending)]]
  /\ rollback
  /\ UNCHANGED last

\* the next statement of the call, on the objects the session holds
uow_goto(w, pc, item, to_item, pending) ==
  /\ session' = [session EXCEPT ![w] =
       [pc |-> pc, args |-> session[w].args, item |-> item, to_item |-> to_item,
        result |-> NoResult, pending |-> pending]]
  /\ rollback
  /\ UNCHANGED last

\* a call enters the try block in the session the worker has
uow_enter(w, args, v, pc) ==
  /\ session[w].pc = "idle"
  /\ Cardinality(transactions) < ConcMaxTx
  /\ IF v # "ok"
     THEN /\ session' = [session EXCEPT ![w] =
               [UowIdle EXCEPT !.args = args, !.result = Raise(args.op, v, 0, 0),
                               !.pending = rollback_session(session[w].pending)]]
          /\ rollback
          /\ UNCHANGED last
     ELSE /\ session' = [session EXCEPT ![w] =
               [UowIdle EXCEPT !.args = args, !.pc = pc,
                               !.pending = session[w].pending]]
          /\ rollback
          /\ UNCHANGED last

\* update_stock: validation and the lookups of store and product
uow_us_begin(w, store_id, product_id, delta) ==
  uow_enter(w, [op |-> "update_stock", store_id |-> store_id, to_store_id |-> None,
                product_id |-> product_id, amount |-> delta],
            update_stock_validate(store_id, product_id, delta), "uow_us_get_item")

\* get_inventory_item, and db.session.add of a new item without one
uow_us_get_item(w) ==
  LET args == session[w].args
      pending == session[w].pending
      loaded == get_inventory_item(inventory_items, args.store_id, args.product_id)
      inventory_item == IF loaded = NoRow
                        THEN new_inventory_item(args.store_id, args.product_id)
                        ELSE loaded
  IN /\ session[w].pc = "uow_us_get_item"
     /\ uow_goto(w, "uow_us_write", inventory_item, NoRow,
                 IF loaded = NoRow
                 THEN [pending EXCEPT !.items = @ \cup {inventory_item}]
                 ELSE pending)

\* the stock check, inventory_item.quantity = new_quantity and
\* db.session.add(transaction)
uow_us_write(w) ==
  LET args == session[w].args
      pending == session[w].pending
      inventory_item == session[w].item
      new_quantity == inventory_item.quantity + args.amount
      changed == [inventory_item EXCEPT !.quantity = new_quantity]
      transaction == Transaction(None, args.product_id, args.store_id,
                                 transaction_type(args.amount), abs(args.amount),
                                 0, "reason", None, actor)
  IN /\ session[w].pc = "uow_us_write"
     /\ IF insufficient_stock(new_quantity)
        THEN uow_raise(w, Raise("update_stock", "Insufficient stock",
                                inventory_item.quantity, abs(args.amount)))
        ELSE uow_goto(w, "uow_commit", changed, NoRow,
                      [items |-> (pending.items \ {inventory_item}) \cup {changed},
                       txs |-> Append(pending.txs, transaction)])

\* transfer_stock: validation and the lookups of the stores and the product
uow_ts_begin(w, from_store_id, to_store_id, product_id, quantity) ==
  uow_enter(w, [op |-> "transfer_stock", store_id |-> from_store_id,
                to_store_id |-> to_store_id, product_id |-> product_id,
                amount |-> quantity],
            transfer_stock_validate(from_store_id, to_store_id, product_id, quantity),
            "uow_ts_get_from")

\* get_inventory_item of the source and the stock check
uow_ts_get_from(w) ==
  LET args == session[w].args
      from_inventory == get_inventory_item(inventory_items, args.store_id, args.product_id)
  IN /\ session[w].pc = "uow_ts_get_from"
     /\ IF insufficient_source(from_inventory, args.amount)
        THEN uow_raise(w, Raise("transfer_stock", "Insufficient stock at source store",
                                loaded_quantity(from_inventory), args.amount))
        ELSE uow_goto(w, "uow_ts_get_to", from_inventory, NoRow, session[w].pending)

\* get_inventory_item of the destination, and db.session.add of a new item
uow_ts_get_to(w) ==
  LET args == session[w].args
      pending == session[w].pending
      loaded == get_inventory_item(inventory_items, args.to_store_id, args.product_id)
      to_inventory == IF loaded = NoRow
                      THEN new_inventory_item(args.to_store_id, args.product_id)
                      ELSE loaded
  IN /\ session[w].pc = "uow_ts_get_to"
     /\ uow_goto(w, "uow_ts_write", session[w].item, to_inventory,
                 IF loaded = NoRow
                 THEN [pending EXCEPT !.items = @ \cup {to_inventory}]
                 ELSE pending)

\* from_inventory.quantity -= quantity, to_inventory.quantity += quantity and
\* db.session.add of out_transaction and of in_transaction
uow_ts_write(w) ==
  LET args == session[w].args
      pending == session[w].pending
      from_inventory == session[w].item
      to_inventory == session[w].to_item
      from_changed == [from_inventory EXCEPT
                         !.quantity = from_new_quantity(from_inventory, args.amount)]
      to_changed == [to_inventory EXCEPT !.quantity = @ + args.amount]
      out_transaction == Transaction(None, args.product_id, args.store_id, "TRANSFER",
                                     transfer_row_quantity(args.amount), 0,
                                     "Transfer OUT to", args.to_store_id, actor)
      in_transaction == Transaction(None, args.product_id, args.to_store_id, "TRANSFER",
                                    transfer_row_quantity(args.amount), 0,
                                    "Transfer IN from", args.store_id, actor)
  IN /\ session[w].pc = "uow_ts_write"
     /\ uow_goto(w, "uow_commit", from_changed, to_changed,
                 [items |-> (pending.items \ {from_inventory, to_inventory})
                              \cup {from_changed, to_changed},
                  txs |-> pending.txs \o <<out_transaction, in_transaction>>])

\* INSERT of the pending InventoryItem objects, each with the next rowid
RECURSIVE insert_all(_, _)
insert_all(items, added) ==
  IF added = {} THEN items
  ELSE LET a == CHOOSE x \in added : TRUE
       IN insert_all(items \cup {[a EXCEPT !.id = NextId(items)]}, added \ {a})

\* the flush breaks UNIQUE(store_id, product_id)
session_conflict(items, pending) ==
  \E a \in pending.items :
    a.id = None /\ ~ unique_store_product(items, a.store_id, a.product_id)

\* the flush of everything the session holds: UPDATE of the changed items,
\* INSERT of the added ones, INSERT of the Transaction objects in the order
\* they were added, the timestamp default evaluated once per row
session_flush(items, txs, pending, ts_first, ts_rest) ==
  LET changed == {a \in pending.items : a.id # None}
      updated == {IF \E a \in changed : a.id = r.id
                  THEN CHOOSE a \in changed : a.id = r.id
                  ELSE r : r \in items}
  IN [items |-> insert_all(updated, {a \in pending.items : a.id = None}),
      txs |-> txs \cup
              {[pending.txs[i] EXCEPT !.id = NextId(txs) + i - 1,
                                      !.timestamp = IF i = 1 THEN ts_first ELSE ts_rest] :
                 i \in DOMAIN pending.txs}]

\* db.session.commit(): flush and COMMIT, or IntegrityError and the rollback
uow_commit(w) ==
  LET args == session[w].args
      pending == session[w].pending
  IN /\ session[w].pc = "uow_commit"
     /\ IF session_conflict(inventory_items, pending)
        THEN uow_raise(w, Raise(args.op, "IntegrityError", 0, 0))
        ELSE \E ts_first \in Clock(now) : \E ts_rest \in Clock(ts_first) :
               LET db == session_flush(inventory_items, transactions, pending,
                                       ts_first, ts_rest)
               IN /\ Len(pending.txs) = 1 => ts_rest = ts_first
                  /\ inventory_items' = db.items
                  /\ transactions' = db.txs
                  /\ now' = ts_rest
                  /\ session' = [session EXCEPT ![w] =
                       [UowIdle EXCEPT !.args = args,
                                       !.result = [NoResult EXCEPT !.op = args.op,
                                                                   !.ok = TRUE]]]
                  /\ UNCHANGED last

\* db.session.commit() while another session is writing: OperationalError
\* (database is locked) after the busy timeout, and the rollback
uow_commit_locked(w) ==
  /\ session[w].pc = "uow_commit"
  /\ \E v \in UowWorkers \ {w} : session[v].pc = "uow_commit"
  /\ uow_raise(w, Raise(session[w].args.op, "OperationalError", 0, 0))

UowInit ==
  /\ inventory_items = {}
  /\ transactions = {}
  /\ now = 0
  /\ last = NoResult
  /\ session = [w \in Workers |-> UowIdle]
  /\ product_rows = {Product(p, "A", DefaultReorderLevel) : p \in products}
  /\ handler = IdleHandler
  /\ feed = <<>>
  /\ poll = [since |-> 0 - 1, seen |-> {}]
  /\ user = Admin
  /\ rooms = {}
  /\ inbox = <<>>

UowNext ==
  \/ \E w \in UowWorkers, s \in StoreIds, p \in products, d \in {0 - 1, 1} :
       uow_us_begin(w, s, p, d) /\ UNCHANGED api_vars
  \/ \E w \in UowWorkers : uow_us_get_item(w) /\ UNCHANGED api_vars
  \/ \E w \in UowWorkers : uow_us_write(w) /\ UNCHANGED api_vars
  \/ \E w \in UowWorkers, p \in products :
       uow_ts_begin(w, 1, 2, p, 1) /\ UNCHANGED api_vars
  \/ \E w \in UowWorkers : uow_ts_get_from(w) /\ UNCHANGED api_vars
  \/ \E w \in UowWorkers : uow_ts_get_to(w) /\ UNCHANGED api_vars
  \/ \E w \in UowWorkers : uow_ts_write(w) /\ UNCHANGED api_vars
  \/ \E w \in UowWorkers : uow_commit(w) /\ UNCHANGED api_vars
  \/ \E w \in UowWorkers : uow_commit_locked(w) /\ UNCHANGED api_vars

UowSpec == UowInit /\ [][UowNext]_vars

\* the requests of the REST blueprint, one at a time: ledger calls on the
\* seeded product, the catalog with the second product coming and going
ApiNext ==
  \/ \E s \in stores, p \in products, d \in {0 - 1, 1} :
       update_stock(s, p, d) /\ UNCHANGED api_vars
  \/ \E f \in stores, p \in products : \E t \in stores \ {f} :
       transfer_stock(f, t, p, 1) /\ UNCHANGED api_vars
  \/ \E sku \in skus : add_product(sku, DefaultReorderLevel) /\ UNCHANGED feed_vars
  \/ \E p \in ProductIds, level \in ReorderLevels :
       update_product(p, level) /\ UNCHANGED feed_vars
  \/ \E p \in ProductIds : delete_product(p) /\ UNCHANGED feed_vars
  \/ \E s \in {None, 2} : get_low_stock(s) /\ UNCHANGED feed_vars
  \/ get_changes(0) /\ UNCHANGED feed_vars

ApiSpec == Init /\ [][ApiNext]_vars

\* receipts, sales and transfers, changes of a reorder level, and the
\* dashboard next to the low-stock report, one request at a time
DashboardNext ==
  \/ \E s \in stores, p \in products, d \in {0 - 1, 1} :
       update_stock(s, p, d) /\ UNCHANGED api_vars
  \/ \E f \in stores, p \in products : \E t \in stores \ {f} :
       transfer_stock(f, t, p, 1) /\ UNCHANGED api_vars
  \/ \E sku \in skus : add_product(sku, DefaultReorderLevel) /\ UNCHANGED feed_vars
  \/ \E p \in products, level \in ReorderLevels :
       update_product(p, level) /\ UNCHANGED feed_vars
  \/ get_low_stock(None) /\ UNCHANGED feed_vars
  \/ get_dashboard /\ UNCHANGED feed_vars

DashboardSpec == Init /\ [][DashboardNext]_vars

\* the ledger calls and the reporting routes, one request at a time
ReportNext ==
  \/ \E s \in stores, p \in products, d \in {0 - 1, 1} :
       update_stock(s, p, d) /\ UNCHANGED api_vars
  \/ \E f \in stores, p \in products : \E t \in stores \ {f} :
       transfer_stock(f, t, p, 1) /\ UNCHANGED api_vars
  \/ \E s \in StoreIds \cup {None} : get_low_stock(s) /\ UNCHANGED feed_vars
  \/ get_dashboard /\ UNCHANGED feed_vars
  \/ \E start_date \in Dates, end_date \in Dates, s \in StoreIds \cup {None} :
       get_stock_report(start_date, end_date, s) /\ UNCHANGED feed_vars
  \/ \E n \in {0, 1, RecentLimit}, s \in StoreIds \cup {None} :
       get_transactions(n, s) /\ UNCHANGED feed_vars
  \/ \E since \in (0 - 1)..MaxClock : get_changes(since) /\ UNCHANGED feed_vars

ReportSpec == Init /\ [][ReportNext]_vars

\* the two routes of the ledger, one request at a time, each dispatched to
\* the blueprint's handler or to the application's broadcasting handler (both
\* are registered for the route), and a client that polls
FeedNext ==
  \/ \E s \in stores, p \in products, d \in {0 - 1, 1} : update_inventory(s, p, d)
  \/ \E s \in stores, p \in products, d \in {0 - 1, 1} : api_update_inventory(s, p, d)
  \/ \E f \in stores, t \in stores, p \in products : transfer_inventory(f, t, p, 1)
  \/ \E f \in stores, t \in stores, p \in products : api_transfer_inventory(f, t, p, 1)
  \/ broadcast
  \/ \E delivered \in BOOLEAN : broadcast_raises(delivered)
  \/ poll_changes

FeedSpec == Init /\ [][FeedNext]_vars

\* the broadcasting handlers and a connected client that joins and leaves
\* the rooms of the stores
RoomNext ==
  \/ \E s \in stores, p \in products, d \in {0 - 1, 1} : api_update_inventory(s, p, d)
  \/ \E f \in stores, t \in stores, p \in products : api_transfer_inventory(f, t, p, 1)
  \/ broadcast
  \/ \E delivered \in BOOLEAN : broadcast_raises(delivered)
  \/ \E s \in stores \cup {None} : join_store(s)
  \/ \E s \in stores \cup {None} : leave_store(s)

RoomSpec == Init /\ [][RoomNext]_vars

(* ============================= properties ============================= *)
\* quantity on hand of a pair, 0 when the pair has no InventoryItem row
CurrentQuantity(items, store_id, product_id) ==
  loaded_quantity(get_inventory_item(items, store_id, product_id))

\* what a Transaction row adds to the quantity of its pair: IN rows and
\* received transfers add, OUT rows and sent transfers subtract
SignedDelta(t) ==
  IF t.type = "IN" THEN t.quantity
  ELSE IF t.type = "OUT" THEN 0 - t.quantity
  ELSE IF t.note = "Transfer IN from" THEN t.quantity
  ELSE 0 - t.quantity

RECURSIVE SignedSum(_)
SignedSum(txs) ==
  IF txs = {} THEN 0
  ELSE LET t == CHOOSE x \in txs : TRUE
       IN SignedDelta(t) + SignedSum(txs \ {t})

PairTransactions(txs, store_id, product_id) ==
  {t \in txs : t.store_id = store_id /\ t.product_id = product_id}

\* quantity of a product summed over the stores
RECURSIVE ProductTotal(_, _)
ProductTotal(items, product_id) ==
  LET m == {r \in items : r.product_id = product_id}
  IN IF m = {} THEN 0
     ELSE LET r == CHOOSE x \in m : TRUE
          IN r.quantity + ProductTotal(items \ {r}, product_id)

\* the kind of error a raised message stands for
Kind(message) ==
  IF message \in {"Insufficient stock", "Insufficient stock at source store"}
  THEN "InsufficientStock"
  ELSE IF message \in {"Delta must be a non-zero integer",
                       "Transfer quantity must be positive",
                       "Cannot transfer to the same store"}
  THEN "InvalidArgument"
  ELSE IF message \in {"Store not found", "Product not found",
                       "Source store not found", "Destination store not found"}
  THEN "NotFound"
  ELSE message

\* the newest row of the Transaction log
Newest(txs) == CHOOSE t \in txs : \A o \in txs : o.id <= t.id

\* C1: with the calls run one at a time from an empty ledger, every
\* InventoryItem's quantity is the signed sum of the Transaction rows of its
\* (store_id, product_id) pair, after successful and failed calls alike.
C1_QuantityIsSignedSum ==
  \A r \in inventory_items :
    r.quantity = SignedSum(PairTransactions(transactions, r.store_id, r.product_id))

\* a call was refused for lack of stock after an increase and a transfer of
\* what it stocked
C1_Witness ==
  /\ \E r \in inventory_items : r.quantity > 0
  /\ \E t \in transactions : t.type = "IN"
  /\ \E t \in transactions : t.type = "TRANSFER" /\ t.note = "Transfer IN from"
  /\ Cardinality(transactions) = 3
  /\ Kind(last.error) = "InsufficientStock"

\* C2: every InventoryItem row has quantity >= 0 in every state the calls
\* leave behind; in particular no row appears with a negative quantity.
C2_QuantityNonNegative ==
  \A r \in inventory_items : r.quantity >= 0

\* a decrease or a transfer has just taken a pair down to exactly 0
C2_Witness ==
  /\ last.ok
  /\ last.new_quantity = 0
  /\ Newest(transactions).type \in {"OUT", "TRANSFER"}
  /\ \E r \in inventory_items : r.quantity = 0

\* C3: when all NumWorkers workers have returned successfully from
\* update_stock with delta = +1 on one pair, and theirs are the newest rows of
\* the log, the pair's quantity is NumWorkers above what the rows before them
\* left, and each call has its own new Transaction row on the pair.
C3_NoLostUpdate ==
  \A s \in stores, p \in products :
    LET ids == {session[w].result.transaction_id : w \in Workers}
        before == {t \in transactions : t.id \notin ids}
    IN (/\ \A w \in Workers :
              /\ session[w].pc = "idle"
              /\ session[w].args =
                   [op |-> "update_stock", store_id |-> s, to_store_id |-> None,
                    product_id |-> p, amount |-> 1]
              /\ session[w].result.ok
        /\ Cardinality(ids) = NumWorkers
        /\ \A t \in before : \A i \in ids : t.id < i)
       => /\ CurrentQuantity(inventory_items, s, p) =
               SignedSum(PairTransactions(before, s, p)) + NumWorkers
          /\ Cardinality(PairTransactions(transactions, s, p) \ before) = NumWorkers

\* C4: whatever the interleaving of the workers' update_stock and
\* transfer_stock calls, in every committed state the quantity of every pair
\* (0 without a row) is the signed sum of the committed Transaction rows of
\* the pair.
C4_ConcurrentQuantityIsSignedSum ==
  \A s \in stores, p \in products :
    CurrentQuantity(inventory_items, s, p) =
      SignedSum(PairTransactions(transactions, s, p))

\* C5: the commit of a transfer is seen whole: the step that commits it adds
\* both TRANSFER rows and leaves the product's quantity summed over the stores
\* as it was, and no other step adds a TRANSFER row.
C5_TransferAllOrNothing ==
  [][\A w \in Workers :
       LET p == session[w].args.product_id
           added == {t \in transactions' \ transactions : t.type = "TRANSFER"}
       IN IF session[w].pc = "ts_commit" /\ session'[w].pc = "ts_return"
          THEN /\ Cardinality(added) = 2
               /\ ProductTotal(inventory_items', p) = ProductTotal(inventory_items, p)
          ELSE session'[w] # session[w] => added = {}]_vars

\* C6 as stated: update_stock with a negative delta larger than the pair's
\* current quantity (0 without a row) fails with an insufficient-stock error
\* carrying the current quantity and leaves both tables as they were.
C6_Original ==
  \A s \in StoreIds, p \in ProductIds, d \in Deltas, ts \in Clock(now) :
    LET call == update_stock_call(inventory_items, transactions, s, p, d, ts)
    IN (d < 0 /\ abs(d) > CurrentQuantity(inventory_items, s, p))
       => /\ ~ call.result.ok
          /\ Kind(call.result.error) = "InsufficientStock"
          /\ call.result.current = CurrentQuantity(inventory_items, s, p)
          /\ call.items = inventory_items
          /\ call.txs = transactions

\* C6: in every state the calls lead to, for a store and a product that
\* exist, update_stock with a negative delta larger than the pair's current
\* quantity (0 without a row) fails with an insufficient-stock error carrying
\* the current quantity and the requested amount, and leaves both tables as
\* they were (no row is created).
C6_InsufficientStockUnchanged ==
  \A s \in stores, p \in products, d \in Deltas, ts \in Clock(now) :
    LET call == update_stock_call(inventory_items, transactions, s, p, d, ts)
    IN (d < 0 /\ abs(d) > CurrentQuantity(inventory_items, s, p))
       => /\ ~ call.result.ok
          /\ Kind(call.result.error) = "InsufficientStock"
          /\ call.result.current = CurrentQuantity(inventory_items, s, p)
          /\ call.result.requested = abs(d)
          /\ call.items = inventory_items
          /\ call.txs = transactions

\* a decrease of 2 was refused on a pair holding 1
C6_Witness ==
  /\ last.op = "update_stock"
  /\ last.error = "Insufficient stock"
  /\ last.current = 1
  /\ last.requested = 2
  /\ \E r \in inventory_items : r.quantity = 1

\* C7 as stated: transfer_stock with a quantity above the source pair's
\* current quantity (0 without a row) fails with an insufficient-stock error
\* carrying current and requested, and writes nothing.
C7_Original ==
  \A f \in StoreIds, t \in StoreIds, p \in ProductIds, q \in Quantities :
    \A ts_out \in Clock(now) : \A ts_in \in Clock(ts_out) :
      LET call == transfer_stock_call(inventory_items, transactions,
                                      f, t, p, q, ts_out, ts_in)
      IN q > CurrentQuantity(inventory_items, f, p)
         => /\ ~ call.result.ok
            /\ Kind(call.result.error) = "InsufficientStock"
            /\ call.result.current = CurrentQuantity(inventory_items, f, p)
            /\ call.result.requested = q
            /\ call.items = inventory_items
            /\ call.txs = transactions

\* C7: in every state the calls lead to, for two different stores and a
\* product that all exist, transfer_stock with a quantity above the source
\* pair's current quantity (0 without a row) fails with an insufficient-stock
\* error carrying current and requested, and writes nothing: no quantity
\* changes, no destination row, no Transaction.
C7_InsufficientSourceUnchanged ==
  \A f \in stores, t \in stores, p \in products, q \in Quantities :
    \A ts_out \in Clock(now) : \A ts_in \in Clock(ts_out) :
      LET call == transfer_stock_call(inventory_items, transactions,
                                      f, t, p, q, ts_out, ts_in)
      IN (f # t /\ q > CurrentQuantity(inventory_items, f, p))
         => /\ ~ call.result.ok
            /\ Kind(call.result.error) = "InsufficientStock"
            /\ call.result.current = CurrentQuantity(inventory_items, f, p)
            /\ call.result.requested = q
            /\ call.items = inventory_items
            /\ call.txs = transactions

\* a transfer of 2 was refused from a pair holding 1, the destination has no row
C7_Witness ==
  /\ last.op = "transfer_stock"
  /\ last.error = "Insufficient stock at source store"
  /\ last.current = 1
  /\ last.requested = 2
  /\ \E r \in inventory_items : inventory_items = {r} /\ r.quantity = 1

\* C8: in every state the calls lead to, transfer_stock with from_store_id =
\* to_store_id fails with an invalid-argument error whatever the quantity and
\* the product, whether or not the store or product exists, and leaves both
\* tables as they were.
C8_SameStoreRejected ==
  \A f \in StoreIds, p \in ProductIds, q \in Quantities :
    \A ts_out \in Clock(now) : \A ts_in \in Clock(ts_out) :
      LET call == transfer_stock_call(inventory_items, transactions,
                                      f, f, p, q, ts_out, ts_in)
      IN /\ ~ call.result.ok
         /\ Kind(call.result.error) = "InvalidArgument"
         /\ call.items = inventory_items
         /\ call.txs = transactions

\* a same-store transfer was refused while a store held stock to transfer
C8_Witness ==
  /\ last.op = "transfer_stock"
  /\ last.error = "Cannot transfer to the same store"
  /\ \E r \in inventory_items : r.quantity >= 1

\* C9: in every state the calls lead to, a successful transfer_stock(A, B,
\* product, Q) found q >= Q at A; it leaves A at q - Q, B at its former
\* quantity (0 without a row) plus Q, every other row as it was, and appends
\* exactly two Transaction rows, both of type TRANSFER with quantity Q, one at
\* A naming B and one at B naming A; the returned new_quantity values are the
\* committed quantities.
C9_TransferEffect ==
  \A A \in StoreIds, B \in StoreIds, P \in ProductIds, Q \in Quantities :
    \A ts_out \in Clock(now) : \A ts_in \in Clock(ts_out) :
      LET call == transfer_stock_call(inventory_items, transactions,
                                      A, B, P, Q, ts_out, ts_in)
          q == CurrentQuantity(inventory_items, A, P)
          b == CurrentQuantity(inventory_items, B, P)
          added == call.txs \ transactions
      IN call.result.ok =>
           /\ q >= Q
           /\ CurrentQuantity(call.items, A, P) = q - Q
           /\ get_inventory_item(call.items, B, P) # NoRow
           /\ CurrentQuantity(call.items, B, P) = b + Q
           /\ \A r \in inventory_items :
                (r.product_id # P \/ r.store_id \notin {A, B}) => r \in call.items
           /\ Cardinality(call.items) =
                Cardinality(inventory_items)
                + (IF get_inventory_item(inventory_items, B, P) = NoRow THEN 1 ELSE 0)
           /\ transactions \subseteq call.txs
           /\ Cardinality(added) = 2
           /\ \A t \in added :
                t.type = "TRANSFER" /\ t.quantity = Q /\ t.product_id = P
           /\ \E t \in added : t.store_id = A /\ t.related_store_id = B
           /\ \E t \in added : t.store_id = B /\ t.related_store_id = A
           /\ call.result.new_quantity = q - Q
           /\ call.result.to_new_quantity = b + Q

\* a transfer has emptied its source into a destination that had no row
C9_Witness ==
  /\ last.op = "transfer_stock"
  /\ last.ok
  /\ last.new_quantity = 0
  /\ \E t \in transactions :
       /\ t.id = last.transaction_id
       /\ last.to_new_quantity = t.quantity
       /\ CurrentQuantity(inventory_items, t.store_id, t.product_id) = 0
       /\ CurrentQuantity(inventory_items, t.related_store_id, t.product_id)
            = t.quantity
       /\ PairTransactions(transactions, t.related_store_id, t.product_id)
            = {i \in transactions : i.id = last.to_transaction_id}

\* C10: the two Transaction rows of a successful transfer_stock carry one
\* timestamp, the one the call returns.
C10_SharedTimestamp ==
  (last.op = "transfer_stock" /\ last.ok) =>
    \A t \in transactions :
      t.id \in {last.transaction_id, last.to_transaction_id}
        => t.timestamp = last.timestamp

\* C11: in every state the calls lead to, a successful update_stock(store,
\* product, delta) leaves the pair (0 without a row, the row then being
\* created) at its former quantity plus delta, returns that value as
\* new_quantity, leaves every other row as it was, and appends exactly one
\* Transaction row, for the pair, of type IN when delta > 0 and OUT when
\* delta < 0, with quantity |delta|.
C11_UpdateEffect ==
  \A s \in StoreIds, p \in ProductIds, d \in Deltas, ts \in Clock(now) :
    LET call == update_stock_call(inventory_items, transactions, s, p, d, ts)
        q == CurrentQuantity(inventory_items, s, p)
        added == call.txs \ transactions
    IN call.result.ok =>
         /\ call.result.new_quantity = q + d
         /\ get_inventory_item(call.items, s, p) # NoRow
         /\ CurrentQuantity(call.items, s, p) = q + d
         /\ \A r \in inventory_items :
              (r.product_id # p \/ r.store_id # s) => r \in call.items
         /\ Cardinality(call.items) =
              Cardinality(inventory_items)
              + (IF get_inventory_item(inventory_items, s, p) = NoRow THEN 1 ELSE 0)
         /\ transactions \subseteq call.txs
         /\ Cardinality(added) = 1
         /\ \A t \in added :
              /\ t.id = call.result.transaction_id
              /\ t.store_id = s /\ t.product_id = p
              /\ t.type = (IF d > 0 THEN "IN" ELSE "OUT")
              /\ t.quantity = (IF d > 0 THEN d ELSE 0 - d)

\* a decrease of 1 has been applied to a pair that held 1 and logged as OUT
C11_Witness ==
  /\ last.op = "update_stock"
  /\ last.ok
  /\ \E t \in transactions :
       /\ t.id = last.transaction_id
       /\ t.type = "OUT"
       /\ t.quantity = 1
       /\ CurrentQuantity(inventory_items, t.store_id, t.product_id) = last.new_quantity
       /\ \E i \in transactions :
            i.type = "IN" /\ i.store_id = t.store_id /\ i.quantity = 1

\* C12 as stated: update_stock with delta = 0 fails with an invalid-argument
\* error, update_stock naming a store or a product that does not exist fails
\* with a not-found error, and both tables are left as they were.
C12_Original ==
  \A s \in StoreIds, p \in ProductIds, d \in Deltas :
    LET call == update_stock_call(inventory_items, transactions, s, p, d, now)
    IN /\ d = 0 =>
            /\ Kind(call.result.error) = "InvalidArgument"
            /\ call.items = inventory_items /\ call.txs = transactions
       /\ (s \notin stores \/ p \notin products) =>
            /\ Kind(call.result.error) = "NotFound"
            /\ call.items = inventory_items /\ call.txs = transactions

\* C12: in every state the calls lead to, update_stock with delta = 0 fails
\* with an invalid-argument error whatever store and product it names;
\* update_stock with a non-zero delta naming a store or a product that does
\* not exist fails with a not-found error; in each case both tables are left
\* as they were.
C12_UpdateRejected ==
  \A s \in StoreIds, p \in ProductIds, d \in Deltas :
    LET call == update_stock_call(inventory_items, transactions, s, p, d, now)
    IN /\ d = 0 =>
            /\ ~ call.result.ok
            /\ Kind(call.result.error) = "InvalidArgument"
            /\ call.items = inventory_items /\ call.txs = transactions
       /\ (d # 0 /\ (s \notin stores \/ p \notin products)) =>
            /\ ~ call.result.ok
            /\ Kind(call.result.error) = "NotFound"
            /\ call.items = inventory_items /\ call.txs = transactions

\* an increase for a product that does not exist was refused at a store that
\* holds stock
C12_Witness ==
  /\ last.op = "update_stock"
  /\ last.error = "Product not found"
  /\ \E r \in inventory_items : r.quantity >= 1

\* C13 as stated: transfer_stock with quantity <= 0 fails with an
\* invalid-argument error, transfer_stock naming a source store, destination
\* store or product that does not exist fails with a not-found error, and both
\* tables are left as they were.
C13_Original ==
  \A f \in StoreIds, t \in StoreIds, p \in ProductIds, q \in Quantities :
    LET call == transfer_stock_call(inventory_items, transactions,
                                    f, t, p, q, now, now)
    IN /\ q <= 0 =>
            /\ Kind(call.result.error) = "InvalidArgument"
            /\ call.items = inventory_items /\ call.txs = transactions
       /\ (f \notin stores \/ t \notin stores \/ p \notin products) =>
            /\ Kind(call.result.error) = "NotFound"
            /\ call.items = inventory_items /\ call.txs = transactions

\* C13: in every state the calls lead to, transfer_stock with quantity <= 0
\* fails with an invalid-argument error whatever stores and product it names;
\* transfer_stock with a positive quantity and two different store ids, naming
\* a source store, destination store or product that does not exist, fails
\* with a not-found error; in each case both tables are left as they were.
C13_TransferRejected ==
  \A f \in StoreIds, t \in StoreIds, p \in ProductIds, q \in Quantities :
    \A ts_out \in Clock(now) : \A ts_in \in Clock(ts_out) :
      LET call == transfer_stock_call(inventory_items, transactions,
                                      f, t, p, q, ts_out, ts_in)
      IN /\ q <= 0 =>
              /\ ~ call.result.ok
              /\ Kind(call.result.error) = "InvalidArgument"
              /\ call.items = inventory_items /\ call.txs = transactions
         /\ (q > 0 /\ f # t /\ (f \notin stores \/ t \notin stores \/ p \notin products)) =>
              /\ ~ call.result.ok
              /\ Kind(call.result.error) = "NotFound"
              /\ call.items = inventory_items /\ call.txs = transactions

\* a transfer to a store that does not exist was refused for a source that
\* holds the quantity asked for
C13_Witness ==
  /\ last.op = "transfer_stock"
  /\ last.error = "Destination store not found"
  /\ \E r \in inventory_items : r.quantity >= 1

\* C14: the Transaction log is append-only: every step of the REST requests
\* (adjust, transfer, product create, update and delete, the low-stock report
\* and polling) keeps every committed Transaction row as it was and at most
\* adds rows.
C14_AppendOnly ==
  [][\A t \in transactions : t \in transactions']_vars

\* the delete of a product with Transaction rows was refused and the rows
\* are all there
C14_Witness ==
  /\ last.op = "delete_product"
  /\ last.error = "IntegrityError"
  /\ Cardinality(transactions) = 2
  /\ \A t \in transactions : t.product_id \in products
  /\ \E r \in product_rows : r.id \in products

\* C15: in every committed state there is at most one InventoryItem row per
\* (store_id, product_id) pair, also when workers race to create the row of a
\* pair with update_stock or as the destination of a transfer.
C15_OneRowPerPair ==
  \A a \in inventory_items, b \in inventory_items :
    (a.store_id = b.store_id /\ a.product_id = b.product_id) => a = b

\* two workers both found no row for a pair and added one; the first commit
\* created the row, the second was refused by the unique constraint
C15_Witness ==
  \E w \in Workers, v \in Workers :
    /\ w # v
    /\ session[w].result.ok
    /\ session[v].result.error = "IntegrityError"
    /\ session[w].args.op = "update_stock"
    /\ session[v].args.op = "transfer_stock"
    /\ session[v].args.to_store_id = session[w].args.store_id
    /\ Cardinality({r \in inventory_items : r.store_id = session[w].args.store_id}) = 1

Sinces == (0 - 1)..MaxClock

\* C17: get_changes(since = T) returns only committed Transactions with
\* timestamp strictly greater than T, ordered newest first, at most
\* ChangesLimit of them (LIMIT n keeps the first n rows), each paired with the
\* current quantity of its (store_id, product_id) pair, 0 without a row.
C17_ChangesSince ==
  \A T \in Sinces :
    \A changes \in get_changes_query(inventory_items, transactions, T) :
      /\ \A i \in DOMAIN changes :
           /\ changes[i].transaction \in transactions
           /\ changes[i].transaction.timestamp > T
           /\ changes[i].current_quantity =
                CurrentQuantity(inventory_items, changes[i].transaction.store_id,
                                changes[i].transaction.product_id)
           /\ \A j \in DOMAIN changes :
                i < j => changes[i].transaction.timestamp
                           >= changes[j].transaction.timestamp
      /\ Len(changes) <= ChangesLimit
      /\ \A n \in 0..Len(changes) :
           /\ Len(limit(changes, n)) = n
           /\ \A i \in 1..n : limit(changes, n)[i] = changes[i]

\* a request with since = 0 was answered with the two rows of a transfer
\* stamped later, while the log also holds a row stamped 0
C17_Witness ==
  /\ last.op = "get_changes"
  /\ Len(last.rows) = 2
  /\ \A i \in DOMAIN last.rows :
       /\ last.rows[i].transaction.type = "TRANSFER"
       /\ last.rows[i].transaction.timestamp = 1
  /\ last.rows[1].current_quantity # last.rows[2].current_quantity
  /\ \E t \in transactions : t.timestamp = 0

\* C18: repeated polling never skips a Transaction: a client that passes the
\* greatest timestamp it was sent as its next `since` has been sent every
\* committed Transaction stamped after its first `since` and not after its
\* present one (the rows no later poll of the client can return).
C18_PollingNeverSkips ==
  \A t \in transactions :
    t.timestamp <= poll.since => t.id \in poll.seen

\* C19: the feed and the polling path agree: the quantity get_changes reports
\* alongside a Transaction is the new quantity the feed's notification carried
\* for that Transaction, whatever was committed on the pair since.
C19_FeedAndPollingAgree ==
  \A T \in Sinces :
    \A changes \in get_changes_query(inventory_items, transactions, T) :
      \A i \in DOMAIN changes : \A n \in DOMAIN feed :
        /\ feed[n].transaction_id = changes[i].transaction.id
             => changes[i].current_quantity = feed[n].new_qty
        /\ feed[n].to_transaction_id = changes[i].transaction.id
             => changes[i].current_quantity = feed[n].to_new_qty

\* the Transaction rows a notification describes are rows of the log
described(n, txs) ==
  /\ \E t \in txs :
       /\ t.id = n.transaction_id
       /\ t.store_id = n.store_id
       /\ t.product_id = n.product_id
       /\ t.timestamp = n.timestamp
       /\ t.type = (IF n.type = "transfer_update" THEN "TRANSFER" ELSE t.type)
  /\ n.type = "transfer_update" =>
       \E t \in txs :
         /\ t.id = n.to_transaction_id
         /\ t.store_id = n.to_store_id
         /\ t.product_id = n.product_id
         /\ t.quantity = n.quantity

\* C20: a notification is emitted only after the mutation it describes has
\* committed: in the step that emits it the Transaction rows it describes are
\* already in the log, nothing else of the ledger changes in that step, and no
\* step emits one for a call that failed.
C20_EmitAfterCommit ==
  [][/\ Len(feed') >= Len(feed)
     /\ \A i \in DOMAIN feed : feed'[i] = feed[i]
     /\ \A i \in DOMAIN feed' \ DOMAIN feed :
          /\ described(feed'[i], transactions)
          /\ transactions' = transactions
          /\ inventory_items' = inventory_items]_vars

\* after an increase, a transfer and a refused decrease, the feed holds the
\* notifications of the first two calls and none for the third
C20_Witness ==
  /\ handler.pc = "idle"
  /\ Len(feed) = 2
  /\ feed[1].type = "inventory_update"
  /\ feed[2].type = "transfer_update"
  /\ ~ last.ok
  /\ last.op = "update_stock"
  /\ Cardinality(transactions) = 3

\* the notifications of the feed that tell of the mutation whose (first)
\* Transaction row is t
NotificationsOf(t) ==
  {n \in DOMAIN feed :
     /\ feed[n].transaction_id = t.id
     /\ feed[n].type = (IF t.type = "TRANSFER" THEN "transfer_update"
                        ELSE "inventory_update")}

\* C21: every adjust or transfer committed through POST /api/inventory/update
\* or POST /api/inventory/transfer is followed by exactly one notification of
\* its kind, whichever of the two registered handlers served the request:
\* once no request is in its handler, every committed mutation has exactly one.
C21_ExactlyOneNotification ==
  handler.pc = "idle" =>
    \A t \in transactions :
      (t.type # "TRANSFER" \/ t.note = "Transfer OUT to")
        => Cardinality(NotificationsOf(t)) = 1

\* C22: a failing subscriber never fails the mutation: the step that ends the
\* broadcasting handler after the commit answers the caller with the successful
\* result of the service call and leaves the committed ledger as it is, also
\* when an emit raises.
C22_EmitFailureNotReported ==
  [][(handler.pc = "broadcast" /\ handler'.pc = "idle")
       => /\ last' = handler.result
          /\ last'.ok
          /\ inventory_items' = inventory_items
          /\ transactions' = transactions]_vars

\* both workers are inside transfer_stock, between the same two stores, in
\* opposite directions
OppositeCalls ==
  /\ session[1].pc # "idle"
  /\ session[2].pc # "idle"
  /\ session[1].args.store_id = session[2].args.to_store_id
  /\ session[1].args.to_store_id = session[2].args.store_id

\* C23: two concurrent transfer_stock calls in opposite directions between the
\* same two stores never deadlock: under fair scheduling each of the two calls
\* returns, and a call that returns with an error leaves the tables as they were.
C23_OppositeTransfersReturn ==
  /\ \A w \in {1, 2} :
       OppositeCalls ~> (session[w].pc = "idle" /\ session[w].result # NoResult)
  /\ [][\A w \in {1, 2} :
         (session[w].pc # "idle" /\ session'[w].pc = "idle" /\ ~ session'[w].result.ok)
           => (inventory_items' = inventory_items /\ transactions' = transactions)]_vars

\* both opposite transfers have committed, each on the quantities it had read
\* before the other one committed
C23_Witness ==
  /\ \A w \in {1, 2} : session[w].pc = "idle" /\ session[w].result.ok
  /\ Cardinality(transactions) = Cardinality(OppositeSeed.txs) + 4
  /\ \E i \in inventory_items : i.quantity = 2

\* the operations that only read
ReportOps ==
  {"get_low_stock_items", "get_dashboard_kpis", "generate_stock_report",
   "get_recent_transactions", "get_changes"}

\* C24: get_low_stock_items, get_dashboard_kpis, generate_stock_report,
\* get_recent_transactions and get_changes leave the ledger unchanged: the
\* Product rows, the InventoryItem rows and the Transaction log are the same
\* after the call as before it, whatever the arguments.
C24_ReportsReadOnly ==
  [][(last' # last /\ last'.op \in ReportOps)
       => /\ inventory_items' = inventory_items
          /\ transactions' = transactions
          /\ product_rows' = product_rows]_vars

\* a stock report of a ledger with stock and a log has been answered
C24_Witness ==
  /\ last.op = "generate_stock_report"
  /\ last.report.transactions # {}
  /\ last.report.inventory_summary # {}
  /\ Cardinality(transactions) > 1

\* the limits a client may ask for: none, fewer than the rows there can be,
\* and the default
Limits == {0, 1, 2, RecentLimit}

\* C25: get_recent_transactions(limit, store_id?) returns at most `limit`
\* Transactions, each one once, all of the given store when one is supplied,
\* in non-increasing timestamp order, and they are the `limit` most recent
\* ones: as many as the limit and the scope allow, and no omitted Transaction
\* in scope has a timestamp greater than a returned one.
C25_RecentTransactions ==
  \A n \in Limits, s \in StoreIds \cup {None} :
    LET scope == {t \in transactions : s = None \/ t.store_id = s}
    IN \A rows \in get_recent_transactions(transactions, n, s) :
         /\ Len(rows) <= n
         /\ Len(rows) = n \/ Len(rows) = Cardinality(scope)
         /\ \A i \in DOMAIN rows : rows[i] \in scope
         /\ \A i \in DOMAIN rows, j \in DOMAIN rows :
              /\ (rows[i] = rows[j]) => (i = j)
              /\ (i < j) => (rows[i].timestamp >= rows[j].timestamp)
         /\ \A t \in scope :
              (\A i \in DOMAIN rows : rows[i] # t)
                => \A i \in DOMAIN rows : t.timestamp <= rows[i].timestamp

\* the one most recent Transaction of store 2 has been returned: another one
\* of store 2 is left out by the limit, a newer one of store 1 by the filter
C25_Witness ==
  /\ last.op = "get_recent_transactions"
  /\ Len(last.rows) = 1
  /\ last.rows[1].store_id = 2
  /\ \E t \in transactions : t.store_id = 2 /\ t # last.rows[1]
  /\ \E t \in transactions : t.store_id = 1 /\ t.timestamp > last.rows[1].timestamp

\* C26: get_recent_transactions is deterministic on timestamp ties: on one
\* ledger state and for the same arguments there is one list the call can
\* return, also when several Transactions share a timestamp and the limit
\* cuts through the tie.
C26_DeterministicOnTies ==
  \A n \in Limits, s \in StoreIds \cup {None} :
    Cardinality(get_recent_transactions(transactions, n, s)) = 1

\* the Transactions of the window from start_date to end_date, each bound
\* applied when given
Window(start_date, end_date) ==
  {t \in transactions : /\ start_date # <<>> => start_date[1] <= t.timestamp
                        /\ end_date # <<>> => t.timestamp <= end_date[1]}

\* the row transfer_stock writes for the receiving store
Received(t) == t.type = "TRANSFER" /\ t.note = "Transfer IN from"

\* the row transfer_stock writes for the sending store
Sent(t) == t.type = "TRANSFER" /\ t.note = "Transfer OUT to"

\* C27: generate_stock_report with a store filter S reports total_in equal to
\* the summed quantity, within the window, of the IN transactions at S plus
\* the transfers received by S; transfers sent out of S are not counted.
C27_TotalInReceivedOnly ==
  \A start_date \in Dates, end_date \in Dates, S \in stores :
    generate_stock_report(inventory_items, transactions, start_date, end_date, S).total_in
      = sum_quantity({t \in Window(start_date, end_date) :
                        t.store_id = S /\ (t.type = "IN" \/ Received(t))})

\* C28: generate_stock_report without a store filter reports total_in equal
\* to the summed quantity of all IN transactions of all stores within the
\* window.
C28_TotalInUnfiltered ==
  \A start_date \in Dates, end_date \in Dates :
    generate_stock_report(inventory_items, transactions, start_date, end_date, None).total_in
      = sum_quantity({t \in Window(start_date, end_date) : t.type = "IN"})

\* C29: in generate_stock_report total_transfers_in is the summed quantity of
\* the transfers received by the stores in scope and total_transfers_out the
\* summed quantity of the transfers sent from the stores in scope, within the
\* window: a transfer from A to B counts as out for scope A only and as in for
\* scope B only.
C29_TransferTotals ==
  \A start_date \in Dates, end_date \in Dates, S \in stores \cup {None} :
    LET report == generate_stock_report(inventory_items, transactions,
                                        start_date, end_date, S)
        scope == {t \in Window(start_date, end_date) : S = None \/ t.store_id = S}
    IN /\ report.total_transfers_in = sum_quantity({t \in scope : Received(t)})
       /\ report.total_transfers_out = sum_quantity({t \in scope : Sent(t)})

\* C30: generate_stock_report(start, end, store_id) includes exactly the
\* Transactions t with start <= t.timestamp <= end, each bound applied only
\* when given and both inclusive, and t.store_id = store_id when a store is
\* given; total_out is the summed quantity of the OUT transactions among them
\* and net_change is the report's total_in minus its total_out.
C30_ReportWindow ==
  \A start_date \in Dates, end_date \in Dates, S \in StoreIds \cup {None} :
    LET report == generate_stock_report(inventory_items, transactions,
                                        start_date, end_date, S)
    IN /\ report.transactions
            = {t \in Window(start_date, end_date) : S = None \/ t.store_id = S}
       /\ report.total_out
            = sum_quantity({t \in report.transactions : t.type = "OUT"})
       /\ report.net_change = report.total_in - report.total_out

\* a report has been answered whose window starts at the timestamp of the
\* sale it lists and leaves out an earlier Transaction of the same store
C30_Witness ==
  /\ last.op = "generate_stock_report"
  /\ last.report.total_out > 0
  /\ \E t \in last.report.transactions :
       /\ t.type = "OUT"
       /\ \A o \in last.report.transactions : t.timestamp <= o.timestamp
       /\ \E e \in transactions \ last.report.transactions :
            e.store_id = t.store_id /\ e.timestamp < t.timestamp

\* the units on hand, added up row by row in the order of the ids
RECURSIVE UnitsOf(_)
UnitsOf(rows) ==
  IF rows = <<>> THEN 0 ELSE Head(rows).quantity + UnitsOf(Tail(rows))

\* C31: for one ledger state get_dashboard_kpis returns low_stock_count equal
\* to the number of entries of get_low_stock_items() without a store filter,
\* total_units equal to the sum of all InventoryItem quantities (0 without
\* rows), total_products and total_stores equal to the row counts, and as
\* recent_transactions a list get_recent_transactions(limit=10) returns.
C31_DashboardKpis ==
  LET kpis == get_dashboard_kpis(inventory_items)
  IN /\ kpis.low_stock_count = Cardinality(get_low_stock_items(inventory_items, None))
     /\ kpis.total_units = UnitsOf(ById(inventory_items))
     /\ kpis.total_products = Cardinality({r.id : r \in product_rows})
     /\ kpis.total_stores = Cardinality(stores)
     /\ last.op = "get_dashboard_kpis"
          => /\ last.kpis = kpis
             /\ last.rows \in get_recent_transactions(transactions, DashboardLimit, None)

\* the dashboard has been answered for a ledger with two rows, of which one
\* is above its product's reorder level and one is not
C31_Witness ==
  /\ last.op = "get_dashboard_kpis"
  /\ Cardinality(inventory_items) = 2
  /\ last.kpis.low_stock_count = 1
  /\ last.kpis.total_units > 0
  /\ last.rows # <<>>

\* C32: SKUs are unique and immutable: no two Products share a SKU; an
\* add_product whose SKU exists, at its lookup or at its commit (two calls
\* with one SKU racing), returns the conflict error and leaves the catalog
\* unchanged; and no request changes the SKU of a Product.
C32_SkuUniqueImmutable ==
  /\ [](\A r \in product_rows, o \in product_rows : (r.sku = o.sku) => (r = o))
  /\ [][\A w \in Workers :
         (/\ session'[w] # session[w]
          /\ session'[w].pc = "idle"
          /\ session'[w].args.op = "add_product"
          /\ \E r \in product_rows : r.sku = session'[w].args.sku)
           => /\ session'[w].result.error = "Product with SKU already exists"
              /\ product_rows' = product_rows]_vars
  /\ [][\A r \in product_rows, o \in product_rows' :
         (r.id = o.id) => (r.sku = o.sku)]_vars

\* two add_product calls with one SKU have raced: one has inserted the row,
\* the other has returned the conflict from its commit
C32_Witness ==
  /\ session[1].pc = "idle" /\ session[2].pc = "idle"
  /\ session[1].args.op = "add_product" /\ session[2].args.op = "add_product"
  /\ session[1].args.sku = session[2].args.sku
  /\ session[1].args.amount # session[2].args.amount
  /\ session[1].result.ok
  /\ session[2].result.error = "Product with SKU already exists"
  /\ \E r \in product_rows : r.sku = session[2].args.sku /\ r.reorder_level = session[1].args.amount

\* an InventoryItem row or a Transaction row references the product
Referenced(product_id) ==
  \/ \E i \in inventory_items : i.product_id = product_id
  \/ \E t \in transactions : t.product_id = product_id

MutatingOps ==
  {"update_stock", "transfer_stock", "add_product", "update_product", "delete_product"}

\* C34: a logged-in user of role staff is denied every request that writes
\* the ledger or the catalog: the request does not succeed, and the
\* InventoryItem rows, the Transaction log and the catalog are unchanged.
C34_StaffReadOnly ==
  [][(user.role = "staff" /\ last' # last /\ last'.op \in MutatingOps)
       => /\ ~ last'.ok
          /\ inventory_items' = inventory_items
          /\ transactions' = transactions
          /\ product_rows' = product_rows]_vars

\* C35: only an admin can delete a product or list the users: the two
\* requests of a logged-in manager are denied and change nothing, those of an
\* admin are not denied.
C35_AdminOnly ==
  [][(last' # last /\ last'.op \in {"delete_product", "list_users"})
       => /\ user.role = "manager"
               => /\ last'.error = "Admin privileges required"
                  /\ inventory_items' = inventory_items
                  /\ transactions' = transactions
                  /\ product_rows' = product_rows
          /\ user.role = "admin"
               => last'.error \notin {"Admin privileges required",
                                      "Authentication required"}]_vars

\* the rows a committing call may write: those of its own arguments
OwnWrites(w) ==
  LET a == session[w].args
      own(r) == r.product_id = a.product_id /\ r.store_id \in {a.store_id, a.to_store_id}
      added == transactions' \ transactions
  IN /\ transactions \subseteq transactions'
     /\ Cardinality(added) = (IF a.op = "update_stock" THEN 1 ELSE 2)
     /\ \A t \in added : own(t) /\ t.quantity = abs(a.amount)
     /\ \A r \in inventory_items' \ inventory_items : own(r)
     /\ \A r \in inventory_items \ inventory_items' : own(r)
     /\ Cardinality(inventory_items' \ inventory_items) <= (IF a.op = "update_stock" THEN 1 ELSE 2)

\* C36: a call of update_stock or transfer_stock that raises, at the stock
\* check after a new InventoryItem was added or at the commit after every
\* write, leaves the committed inventory_items and transactions as they were
\* and its session without any pending object; a call that commits writes the
\* rows of its own arguments only, nothing left over from an earlier failed
\* call of the same session.
C36_RollbackDiscards ==
  /\ [][\A w \in Workers :
          (session[w].pc # "idle" /\ session'[w].pc = "idle" /\ ~ session'[w].result.ok)
            => /\ inventory_items' = inventory_items
               /\ transactions' = transactions
               /\ session'[w].pending = NoPending]_vars
  /\ [][\A w \in Workers :
          (session[w].pc = "uow_commit" /\ session'[w].result.ok)
            => OwnWrites(w) /\ session'[w].pending = NoPending]_vars
  /\ [](\A w \in Workers : session[w].pc = "idle" => session[w].pending = NoPending)

\* a commit raised IntegrityError for a call that had added an item and a
\* Transaction, while the same worker's session holds nothing and the table
\* has the row of the other worker only
C36_Witness ==
  \E w \in Workers :
    /\ session[w].pc = "idle"
    /\ session[w].result.error = "IntegrityError"
    /\ session[w].pending = NoPending
    /\ Cardinality(transactions) = 1
    /\ Cardinality(inventory_items) = 1

\* the parts of a well-formed row but for its quantity being a whole number
WellFormed(t) ==
  /\ t.type \in {"IN", "OUT", "TRANSFER"}
  /\ t.quantity > 0
  /\ (t.related_store_id # None) <=> (t.type = "TRANSFER")
  /\ t.type = "TRANSFER"
       => t.related_store_id \in stores /\ t.related_store_id # t.store_id
  /\ t.user_id = user.user_id

\* C37: every Transaction row a step appends has a type of IN, OUT and
\* TRANSFER, a quantity that is a positive whole number, a related_store_id
\* exactly when it is a TRANSFER, then an existing store other than its
\* store_id, and the user_id of the session's user.
C37_WellFormedRows ==
  [][\A t \in transactions' \ transactions : WellFormed(t) /\ is_int(t.quantity)]_vars

\* C37 without the whole number: what holds of every appended row
C37_WellFormedButWhole ==
  [][\A t \in transactions' \ transactions : WellFormed(t)]_vars

\* the stores a mutation involves
Involved(data) ==
  IF data.op = "update_stock" THEN {data.store_id} ELSE {data.store_id, data.to_store_id}

\* the events a step delivers to the client
Delivered == SubSeq(inbox', Len(inbox) + 1, Len(inbox'))

\* C38: when the broadcast of an adjustment or a transfer has run, a client
\* has received one store_inventory_update (store_transfer_update) for every
\* room it is in among the stores the mutation involves, carrying the
\* notification of the feed; no step delivers a store event of a room the
\* client is not in, which covers stores it never joined and stores it left,
\* or of a store the mutation does not involve, and nothing is delivered
\* without a broadcast.
C38_StoreRooms ==
  /\ [][(handler.pc = "broadcast" /\ handler'.pc = "idle" /\ last'.ok)
          => /\ \A s \in rooms \cap Involved(handler.data) :
                  \E i \in DOMAIN Delivered :
                    /\ Delivered[i].room = s
                    /\ Delivered[i].data = feed'[Len(feed')]
                    /\ Delivered[i].event =
                         (IF handler.data.op = "update_stock"
                          THEN "store_inventory_update"
                          ELSE "store_transfer_update")
             /\ Len(Delivered) = Cardinality(rooms \cap Involved(handler.data))]_vars
  /\ [][/\ Len(inbox') >= Len(inbox)
        /\ SubSeq(inbox', 1, Len(inbox)) = inbox
        /\ \A i \in DOMAIN Delivered :
             /\ handler.pc = "broadcast"
             /\ Delivered[i].room \in rooms \cap Involved(handler.data)]_vars

\* a client in the rooms of both stores has the two store_transfer_update
\* events of one transfer
C38_Witness ==
  /\ rooms = stores
  /\ Len(inbox) = 2
  /\ inbox[1].event = "store_transfer_update"
  /\ inbox[1].room # inbox[2].room

\* a client that left the room of store 1 after an adjustment there, which
\* it received, and an adjustment at store 1 that was broadcast since
C38_WitnessLeft ==
  /\ 1 \notin rooms
  /\ Len(inbox) = 1
  /\ inbox[1].event = "store_inventory_update"
  /\ inbox[1].room = 1
  /\ Len(feed) = 2
  /\ feed[2].store_id = 1
  /\ feed[2].type = "inventory_update"
  /\ inbox[1].data = feed[1]
  /\ last.ok
  /\ last.transaction_id = feed[2].transaction_id
====
